---- MODULE Spec2Model ----
(***************************************************************************)
(* Model of memory.core's keyword similarity index (SubjectIndex) and of   *)
(* the plan that keeps it in step with the subject store                   *)
(* (SubjectMemoryPlan).                                                    *)
(*                                                                         *)
(* A keyword is a sequence of one-character strings, so that lowercasing,  *)
(* punctuation stripping, trimming and substring tests are computed on     *)
(* the characters.  A relevance score is the pair [num, den] of the        *)
(* integers the code divides; two scores compare as the quotients do.      *)
(***************************************************************************)
EXTENDS Integers, Sequences, FiniteSets, TLC

(***************************************************************************)
(* Bounds and input sets                                                   *)
(***************************************************************************)
\* keywords per subject entry
MaxKeywords == 2
\* keywords per query
MaxQuery == 2
\* largest explicit limit handed to findSimilar
MaxLimit == 2

\* index keys: String(entry.idHash)
Ids == {"s1", "s2"}

\* raw keywords handed to createIndexEntry: "a", "ab", "B!"
RawKeywords == { <<"a">>, <<"a", "b">>, <<"B", "!">> }

\* raw keywords of queries: "a", " A", "ab", "B!"
QueryKeywords == RawKeywords \cup { <<" ", "A">> }

SeqsUpTo(S, n) == UNION { [1..m -> S] : m \in 0..n }

NoRepeat(s) == \A i, j \in DOMAIN s : i # j => s[i] # s[j]

\* a fixed order on keywords: shorter first, then by the first character
Before(k1, k2) ==
  \/ Len(k1) < Len(k2)
  \/ Len(k1) = Len(k2) /\ k1[1] = "a" /\ k2[1] # "a"

\* the keyword arrays of subjects: no keyword twice, in the fixed order
KeywordLists ==
  { s \in SeqsUpTo(RawKeywords, MaxKeywords) :
      \A i, j \in DOMAIN s : i < j => Before(s[i], s[j]) }

Queries == { s \in SeqsUpTo(QueryKeywords, MaxQuery) : NoRepeat(s) }

Limits == 0..MaxLimit

Range(s) == { s[i] : i \in DOMAIN s }

Min(a, b) == IF a <= b THEN a ELSE b

(***************************************************************************)
(* Keyword normalization                                                   *)
(***************************************************************************)
UpperCaseLetters ==
  << "A", "B", "C", "D", "E", "F", "G", "H", "I", "J", "K", "L", "M",
     "N", "O", "P", "Q", "R", "S", "T", "U", "V", "W", "X", "Y", "Z" >>

LowerCaseLetters ==
  << "a", "b", "c", "d", "e", "f", "g", "h", "i", "j", "k", "l", "m",
     "n", "o", "p", "q", "r", "s", "t", "u", "v", "w", "x", "y", "z" >>

Digits == {"0", "1", "2", "3", "4", "5", "6", "7", "8", "9"}

\* String.prototype.toLowerCase on one character of the characters used here
\* (the letters outside ASCII among them are lower case already)
LowerCaseOf ==
  [ u \in Range(UpperCaseLetters) |->
      LowerCaseLetters[CHOOSE i \in DOMAIN UpperCaseLetters : UpperCaseLetters[i] = u] ]

ToLowerCase(c) == IF c \in DOMAIN LowerCaseOf THEN LowerCaseOf[c] ELSE c

\* \w of a JavaScript regular expression without the u flag: [A-Za-z0-9_]
WordChars ==
  Range(UpperCaseLetters) \cup Range(LowerCaseLetters) \cup Digits \cup {"_"}

IsWordChar(c) == c \in WordChars

\* \s
IsSpaceChar(c) == c = " "

RECURSIVE TrimStart(_)
TrimStart(s) ==
  IF s # <<>> /\ IsSpaceChar(Head(s)) THEN TrimStart(Tail(s)) ELSE s

RECURSIVE TrimEnd(_)
TrimEnd(s) ==
  IF s # <<>> /\ IsSpaceChar(s[Len(s)])
  THEN TrimEnd(SubSeq(s, 1, Len(s) - 1))
  ELSE s

Trim(s) == TrimEnd(TrimStart(s))

StripPunctuation(s) == SelectSeq(s, LAMBDA c : IsWordChar(c) \/ IsSpaceChar(c))

\* normalizeKeyword that trims before it removes the punctuation
normalizeKeywordTrimFirst(keyword) ==
  StripPunctuation(Trim([i \in 1..Len(keyword) |-> ToLowerCase(keyword[i])]))

normalizeKeyword(keyword) ==
  Trim(StripPunctuation([i \in 1..Len(keyword) |-> ToLowerCase(keyword[i])]))

normalizeKeywords(keywords) ==
  [i \in 1..Len(keywords) |-> normalizeKeyword(keywords[i])]

createIndexEntry(idHash, name, keywords) ==
  [ idHash |-> idHash,
    name |-> name,
    keywords |-> keywords,
    normalizedKeywords |-> { normalizeKeyword(keywords[i]) : i \in 1..Len(keywords) } ]

(***************************************************************************)
(* State                                                                   *)
(***************************************************************************)
VARIABLES
  subjects,           \* SubjectIndex.subjects: idHash string -> entry
  keywordToSubjects,  \* SubjectIndex.keywordToSubjects: keyword -> ids, in insertion order
  last,               \* the last call: its name, argument and return value
  store,              \* the subject store behind subjectPlan: idHash -> Subject
  subjectCache,       \* SubjectMemoryPlan.subjectCache: idHash -> Subject
  indexInitialized,   \* SubjectMemoryPlan.indexInitialized
  pending,            \* the asynchronous calls of the plan that are suspended at an await
  configs,            \* ChatMemoryService.configs: topicId -> ChatMemoryConfig
  associations,       \* ChatMemoryService.associations: topicId -> associations, in insertion order
  deps,               \* ChatMemoryService.deps: the collaborators that are present
  storeCreates,       \* per subject id, how often subjectPlan.createSubject was invoked by
                      \* the createSubject calls that are followed step by step
  imports,            \* the importMemory calls of MemoryImportPlan: their position and locals
  events              \* per importMemory call, the calls it made on its dependencies and
                      \* their outcomes, in order

vars ==
  <<subjects, keywordToSubjects, last, store, subjectCache, indexInitialized, pending,
    configs, associations, deps, storeCreates, imports, events>>

serviceVars == <<configs, associations, deps>>

importVars == <<imports, events>>

\* the callers of MemoryImportPlan.importMemory
Importers == {"i1", "i2"}

\* an importer that has no importMemory call in progress
IdleImport == [pc |-> "idle"]

NoImports == [i \in Importers |-> IdleImport]

planVars == <<store, subjectCache, indexInitialized, pending, serviceVars, storeCreates, importVars>>

\* the collaborators of ChatMemoryServiceDependencies that a service can lack
Collaborators == {"channelManager", "topicAnalyzer", "memoryPlan"}

\* the asynchronous calls followed step by step
AsyncCalls == {"buildIndex", "searchByKeywords"}

\* a call that is not running
Idle == [pc |-> "idle", ids |-> <<>>, loaded |-> <<>>, keywords |-> <<>>]

NoCalls == [c \in AsyncCalls |-> Idle]

EmptyMap == [x \in {} |-> x]

EmptyIndex == [subjects |-> EmptyMap, keywordToSubjects |-> EmptyMap]

Index == [subjects |-> subjects, keywordToSubjects |-> keywordToSubjects]

(***************************************************************************)
(* SubjectIndex                                                            *)
(***************************************************************************)
\* SetAdd as an Array.prototype.push: the element is added even when present
SetAddAlways(s, x) == Append(s, x)

\* Set.prototype.add / delete on a Set kept in insertion order
SetAdd(s, x) == IF x \in Range(s) THEN s ELSE Append(s, x)

SetDelete(s, x) == SelectSeq(s, LAMBDA y : y # x)

MapSet(f, k, v) == [x \in DOMAIN f \cup {k} |-> IF x = k THEN v ELSE f[x]]

MapDelete(f, k) == [x \in DOMAIN f \ {k} |-> f[x]]

\* the loop of addSubject and of updateSubject that indexes keywords
IndexKeywords(k2s, kws, id) ==
  [k \in DOMAIN k2s \cup kws |->
     IF k \in kws
     THEN SetAdd(IF k \in DOMAIN k2s THEN k2s[k] ELSE <<>>, id)
     ELSE k2s[k]]

\* the loop of removeSubject and of updateSubject that drops an id from the
\* posting lists of kws and deletes the lists that become empty
UnindexKeywords(k2s, kws, id) ==
  LET emptied == { k \in DOMAIN k2s \cap kws : SetDelete(k2s[k], id) = <<>> }
  IN [k \in DOMAIN k2s \ emptied |->
        IF k \in kws THEN SetDelete(k2s[k], id) ELSE k2s[k]]

addSubject(idx, entry) ==
  [ subjects |-> MapSet(idx.subjects, entry.idHash, entry),
    keywordToSubjects |->
      IndexKeywords(idx.keywordToSubjects, entry.normalizedKeywords, entry.idHash) ]

\* removeSubject that, for an id without a stored entry, still takes the id
\* out of the posting lists
removeSubjectAnyway(idx, idHash) ==
  IF idHash \notin DOMAIN idx.subjects
  THEN [ subjects |-> idx.subjects,
         keywordToSubjects |->
           UnindexKeywords(idx.keywordToSubjects, DOMAIN idx.keywordToSubjects, idHash) ]
  ELSE [ subjects |-> MapDelete(idx.subjects, idHash),
         keywordToSubjects |->
           UnindexKeywords(idx.keywordToSubjects,
                           idx.subjects[idHash].normalizedKeywords, idHash) ]

\* the index after removeSubject(idHash); it returns hasSubject(idHash) of before
removeSubject(idx, idHash) ==
  IF idHash \notin DOMAIN idx.subjects
  THEN idx
  ELSE [ subjects |-> MapDelete(idx.subjects, idHash),
         keywordToSubjects |->
           UnindexKeywords(idx.keywordToSubjects,
                           idx.subjects[idHash].normalizedKeywords, idHash) ]

\* updateSubject without the pass over the removed keywords
updateSubjectAsAdd(idx, entry) ==
  [ subjects |-> MapSet(idx.subjects, entry.idHash, entry),
    keywordToSubjects |->
      IndexKeywords(idx.keywordToSubjects, entry.normalizedKeywords, entry.idHash) ]

updateSubject(idx, entry) ==
  IF entry.idHash \notin DOMAIN idx.subjects
  THEN addSubject(idx, entry)
  ELSE LET oldEntry == idx.subjects[entry.idHash]
           removedKeywords == oldEntry.normalizedKeywords \ entry.normalizedKeywords
           addedKeywords == entry.normalizedKeywords \ oldEntry.normalizedKeywords
       IN [ subjects |-> MapSet(idx.subjects, entry.idHash, entry),
            keywordToSubjects |->
              IndexKeywords(
                UnindexKeywords(idx.keywordToSubjects, removedKeywords, entry.idHash),
                addedKeywords, entry.idHash) ]

clear(idx) == EmptyIndex

RECURSIVE AddAll(_, _)
AddAll(idx, entries) ==
  IF entries = <<>> THEN idx
  ELSE AddAll(addSubject(idx, Head(entries)), Tail(entries))

\* buildFromSubjects that stops after the first entry
buildFromSubjectsFirstOnly(idx, entries) ==
  AddAll(clear(idx), SubSeq(entries, 1, Min(1, Len(entries))))

buildFromSubjects(idx, entries) == AddAll(clear(idx), entries)

hasSubject(idx, idHash) == idHash \in DOMAIN idx.subjects

\* String.prototype.includes
Includes(s, t) ==
  \E i \in 0..(Len(s) - Len(t)) : SubSeq(s, i + 1, i + Len(t)) = t

\* new Set(array): the distinct elements in order of first occurrence
RECURSIVE Dedupe(_)
Dedupe(s) ==
  IF s = <<>> THEN <<>>
  ELSE LET front == Dedupe(SubSeq(s, 1, Len(s) - 1))
       IN SetAdd(front, s[Len(s)])

\* findMatchingKeywords without the partial matches
findMatchingKeywordsExact(searchKeywords, subjectKeywords) ==
  SelectSeq(searchKeywords, LAMBDA keyword : keyword \in subjectKeywords)

findMatchingKeywords(searchKeywords, subjectKeywords) ==
  SelectSeq(searchKeywords,
            LAMBDA keyword :
              \/ keyword \in subjectKeywords
              \/ \E subjectKw \in subjectKeywords :
                   Includes(subjectKw, keyword) \/ Includes(keyword, subjectKw))

\* a < b for two scores, on the quotients
ScoreLess(a, b) == a.num * b.den < b.num * a.den

\* the union counted as the sum of the two sizes
JaccardSumOfSizes(setA, setB) ==
  IF Cardinality(setA) + Cardinality(setB) = 0
  THEN [num |-> 0, den |-> 1]
  ELSE [num |-> Cardinality(setA \cap setB),
        den |-> Cardinality(setA) + Cardinality(setB)]

\* intersection.size / union.size as the pair of the two sizes; 0.0 is 0/1
calculateJaccardSimilarity(setA, setB) ==
  IF Cardinality(setA \cup setB) = 0
  THEN [num |-> 0, den |-> 1]
  ELSE [num |-> Cardinality(setA \cap setB), den |-> Cardinality(setA \cup setB)]


\* the candidate ids of findByKeywords, in the insertion order of the Set
RECURSIVE AddEach(_, _)
AddEach(set, items) ==
  IF items = <<>> THEN set
  ELSE AddEach(SetAdd(set, Head(items)), Tail(items))

RECURSIVE Candidates(_, _, _)
Candidates(idx, normalizedKeywords, acc) ==
  IF normalizedKeywords = <<>> THEN acc
  ELSE LET keyword == Head(normalizedKeywords)
           next == IF keyword \in DOMAIN idx.keywordToSubjects
                   THEN AddEach(acc, idx.keywordToSubjects[keyword])
                   ELSE acc
       IN Candidates(idx, Tail(normalizedKeywords), next)

\* the matches pushed by the loop over the candidates, before sorting
RECURSIVE Matches(_, _, _)
Matches(idx, candidateIdHashes, searchKeywords) ==
  IF candidateIdHashes = <<>> THEN <<>>
  ELSE LET idHashStr == Head(candidateIdHashes)
           rest == Matches(idx, Tail(candidateIdHashes), searchKeywords)
       IN IF idHashStr \notin DOMAIN idx.subjects THEN rest
          ELSE LET entry == idx.subjects[idHashStr]
                   matchingKeywords ==
                     findMatchingKeywords(searchKeywords, entry.normalizedKeywords)
               IN IF Len(matchingKeywords) > 0
                  THEN << [ idHash |-> entry.idHash,
                            name |-> entry.name,
                            keywords |-> entry.keywords,
                            matchingKeywords |-> matchingKeywords,
                            relevanceScore |->
                              calculateJaccardSimilarity(Range(searchKeywords),
                                                         entry.normalizedKeywords) ] >>
                       \o rest
                  ELSE rest

\* the comparator turned round: (a, b) => a.relevanceScore - b.relevanceScore
RECURSIVE InsertByScoreAscending(_, _)
InsertByScoreAscending(sorted, m) ==
  IF sorted = <<>> THEN <<m>>
  ELSE IF ScoreLess(m.relevanceScore, Head(sorted).relevanceScore)
       THEN <<m>> \o sorted
       ELSE <<Head(sorted)>> \o InsertByScoreAscending(Tail(sorted), m)

\* Array.prototype.sort with (a, b) => b.relevanceScore - a.relevanceScore:
\* a stable sort, highest score first
RECURSIVE InsertByScore(_, _)
InsertByScore(sorted, m) ==
  IF sorted = <<>> THEN <<m>>
  ELSE IF ScoreLess(Head(sorted).relevanceScore, m.relevanceScore)
       THEN <<m>> \o sorted
       ELSE <<Head(sorted)>> \o InsertByScore(Tail(sorted), m)

RECURSIVE SortByRelevance(_)
SortByRelevance(matches) ==
  IF matches = <<>> THEN <<>>
  ELSE InsertByScore(SortByRelevance(SubSeq(matches, 1, Len(matches) - 1)),
                     matches[Len(matches)])

findByKeywords(idx, keywords) ==
  LET normalizedKeywords == normalizeKeywords(keywords)
      candidateIdHashes == Candidates(idx, normalizedKeywords, <<>>)
      searchKeywordSet == Dedupe(normalizedKeywords)
  IN SortByRelevance(Matches(idx, candidateIdHashes, searchKeywordSet))

\* slice(0, limit + 1)
SliceOffByOne(s, limit) == SubSeq(s, 1, Min(limit + 1, Len(s)))

\* Array.prototype.slice(0, limit) for limit >= 0
Slice(s, limit) == SubSeq(s, 1, Min(limit, Len(s)))

\* the default value of findSimilar's limit
DefaultLimit == 10

\* an optional argument: <<>> when the caller leaves it out, <<v>> otherwise
LimitOr(opt, default) == IF opt = <<>> THEN default ELSE opt[1]

findSimilar(idx, keywords, limit) ==
  Slice(findByKeywords(idx, keywords), LimitOr(limit, DefaultLimit))

getStats(idx) ==
  [ totalSubjects |-> Cardinality(DOMAIN idx.subjects),
    totalKeywords |-> Cardinality(DOMAIN idx.keywordToSubjects) ]

(***************************************************************************)
(* Calls on a SubjectIndex                                                 *)
(***************************************************************************)
Names == {"n"}

EntryInputs ==
  { createIndexEntry(id, name, kws) : id \in Ids, name \in Names, kws \in KeywordLists }

\* the entry arrays handed to buildFromSubjects: up to two one-keyword entries
BuildEntries == { e \in EntryInputs : Len(e.keywords) = 1 }

BuildInputs ==
  {<<>>} \cup { <<e>> : e \in BuildEntries } \cup { <<e, f>> : e, f \in BuildEntries }

\* the call, and the entry it found stored under its id (<<>> when none)
Call(op, arg, ret, old) == [op |-> op, arg |-> arg, ret |-> ret, old |-> old]

Stored(idx, idHash) ==
  IF idHash \in DOMAIN idx.subjects THEN <<idx.subjects[idHash]>> ELSE <<>>

SetIndex(idx) ==
  /\ subjects' = idx.subjects
  /\ keywordToSubjects' = idx.keywordToSubjects

Init ==
  /\ subjects = EmptyMap
  /\ keywordToSubjects = EmptyMap
  /\ last = Call("new", <<>>, <<>>, <<>>)
  /\ store = EmptyMap
  /\ subjectCache = EmptyMap
  /\ indexInitialized = FALSE
  /\ pending = NoCalls
  /\ configs = EmptyMap
  /\ associations = EmptyMap
  /\ storeCreates = EmptyMap
  /\ imports = NoImports
  /\ events = EmptyMap
  /\ deps = Collaborators

AddSubject ==
  \E entry \in EntryInputs :
    /\ SetIndex(addSubject(Index, entry))
    /\ last' = Call("addSubject", entry, <<>>, Stored(Index, entry.idHash))
    /\ UNCHANGED planVars

RemoveSubject ==
  \E idHash \in Ids :
    /\ SetIndex(removeSubject(Index, idHash))
    /\ last' = Call("removeSubject", idHash, hasSubject(Index, idHash), Stored(Index, idHash))
    /\ UNCHANGED planVars

UpdateSubject ==
  \E entry \in EntryInputs :
    /\ SetIndex(updateSubject(Index, entry))
    /\ last' = Call("updateSubject", entry, <<>>, Stored(Index, entry.idHash))
    /\ UNCHANGED planVars

Clear ==
  /\ SetIndex(clear(Index))
  /\ last' = Call("clear", <<>>, <<>>, <<>>)
  /\ UNCHANGED planVars

BuildFromSubjects ==
  \E entries \in BuildInputs :
    /\ SetIndex(buildFromSubjects(Index, entries))
    /\ last' = Call("buildFromSubjects", entries, <<>>, <<>>)
    /\ UNCHANGED planVars

Next ==
  \/ AddSubject
  \/ RemoveSubject
  \/ UpdateSubject
  \/ Clear
  \/ BuildFromSubjects

Spec == Init /\ [][Next]_vars

(***************************************************************************)
(* Properties of the index                                                 *)
(***************************************************************************)
IndexNext == [subjects |-> subjects', keywordToSubjects |-> keywordToSubjects']

MatchIds(matches) == { matches[i].idHash : i \in DOMAIN matches }

\* the subjects other than idHash that hold keyword k
OtherHolders(idx, idHash, k) ==
  { o \in DOMAIN idx.subjects \ {idHash} : k \in idx.subjects[o].normalizedKeywords }

\* C1 (as claimed): after removeSubject(id) returns true no posting list
\* contains id, hasSubject(id) is false, every keyword that belonged only to
\* that subject has no posting list, and totalKeywords drops by their number.
C1_RemovalCleanliness ==
  [][ (last'.op = "removeSubject" /\ last'.ret = TRUE) =>
        LET id == last'.arg
            onlyHere == { k \in subjects[id].normalizedKeywords :
                            OtherHolders(Index, id, k) = {} }
        IN /\ \A k \in DOMAIN keywordToSubjects' : id \notin Range(keywordToSubjects'[k])
           /\ ~hasSubject(IndexNext, id)
           /\ \A k \in onlyHere : k \notin DOMAIN keywordToSubjects'
           /\ getStats(IndexNext).totalKeywords =
                getStats(Index).totalKeywords - Cardinality(onlyHere) ]_vars

\* C2 (as claimed): a posting list exists for keyword k if and only if k is
\* in the normalized-keyword set of at least one stored entry, and no posting
\* list is empty.
C2_PostingListInvariant ==
  /\ \A k \in DOMAIN keywordToSubjects :
       /\ \E id \in DOMAIN subjects : k \in subjects[id].normalizedKeywords
       /\ keywordToSubjects[k] # <<>>
  /\ \A id \in DOMAIN subjects :
       \A k \in subjects[id].normalizedKeywords : k \in DOMAIN keywordToSubjects

\* C3: right after addSubject(e), a second addSubject(e) leaves the stored
\* entries and the posting lists as they are.
C3_IdempotentReAdd ==
  last.op = "addSubject" => addSubject(Index, last.arg) = Index

\* the add replaced an entry with other keywords and a second subject shares
\* a posting list with it
C3_Witness ==
  /\ last.op = "addSubject"
  /\ Len(last.old) = 1
  /\ last.old[1].normalizedKeywords # last.arg.normalizedKeywords
  /\ \E k \in last.arg.normalizedKeywords : Len(keywordToSubjects[k]) = 2

\* the normalized keywords of old that new does not have and that no other
\* indexed subject has either
DroppedKeywords(idx, old, new) ==
  { k \in old.normalizedKeywords \ new.normalizedKeywords :
      OtherHolders(idx, new.idHash, k) = {} }

UpdateThenFind(idx, old, new) ==
  /\ new.idHash \in MatchIds(findByKeywords(idx, new.keywords))
  /\ \A Q \in SeqsUpTo(DroppedKeywords(idx, old, new), MaxKeywords) \ {<<>>} :
       new.idHash \notin MatchIds(findByKeywords(idx, Q))

C5_OrMatch ==
  \A Q \in Queries :
    LET matches == findByKeywords(Index, Q)
        A == Range(normalizeKeywords(Q))
    IN /\ MatchIds(matches) =
            { id \in DOMAIN subjects : subjects[id].normalizedKeywords \cap A # {} }
       /\ Cardinality(MatchIds(matches)) = Len(matches)

Kw(c) == <<c>>

\* C6: the relevanceScore of every match is |A \cap B| / |A \cup B| for the
\* normalized query set A and the entry's normalized-keyword set B, lies in
\* [0, 1], is 0 for two empty sets, 2/3 for {a,b} against {a,b,c}, 1 for
\* identical sets and 0 for disjoint ones.
C6_JaccardScore ==
  /\ \A Q \in Queries :
       LET matches == findByKeywords(Index, Q)
           A == Range(normalizeKeywords(Q))
       IN \A i \in DOMAIN matches :
            LET B == subjects[matches[i].idHash].normalizedKeywords
                r == matches[i].relevanceScore
            IN /\ r.den > 0
               /\ r.num * Cardinality(A \cup B) = Cardinality(A \cap B) * r.den
               /\ 0 <= r.num /\ r.num <= r.den
  /\ calculateJaccardSimilarity({}, {}).num = 0
  /\ LET r == calculateJaccardSimilarity({Kw("a"), Kw("b")}, {Kw("a"), Kw("b"), Kw("c")})
     IN r.num * 3 = 2 * r.den
  /\ LET r == calculateJaccardSimilarity({Kw("a"), Kw("b")}, {Kw("a"), Kw("b")})
     IN r.num = r.den
  /\ calculateJaccardSimilarity({Kw("a")}, {Kw("b")}).num = 0

\* a match with a score strictly between 0 and 1 whose matchingKeywords
\* holds a partial match that the score does not count
C6_Witness ==
  \E Q \in Queries :
    LET matches == findByKeywords(Index, Q)
    IN \E i \in DOMAIN matches :
         /\ 0 < matches[i].relevanceScore.num
         /\ matches[i].relevanceScore.num < matches[i].relevanceScore.den
         /\ Len(matches[i].matchingKeywords) > matches[i].relevanceScore.num

\* C7: the sequence returned by findByKeywords is sorted by non-increasing
\* relevanceScore.
C7_RankingOrder ==
  \A Q \in Queries :
    LET matches == findByKeywords(Index, Q)
    IN \A i, j \in DOMAIN matches :
         i < j => ~ScoreLess(matches[i].relevanceScore, matches[j].relevanceScore)

\* two matches that the candidate loop produced lowest first
C7_Witness ==
  \E Q \in Queries :
    LET unsorted == Matches(Index, Candidates(Index, normalizeKeywords(Q), <<>>),
                            Dedupe(normalizeKeywords(Q)))
        matches == findByKeywords(Index, Q)
    IN /\ Len(unsorted) = 2
       /\ ScoreLess(unsorted[1].relevanceScore, unsorted[2].relevanceScore)
       /\ matches = <<unsorted[2], unsorted[1]>>

MaxPlanKeywords == 1

\* the idHash under which the store keeps the subject with this id
IdHashOf(id) ==
  CASE id = "s1" -> "h1"
    [] id = "s2" -> "h2"

IdHashes == { IdHashOf(id) : id \in Ids }

\* one character of a keyword as a character of its hash
HexOf(c) ==
  CASE c = "a" -> "a"
    [] c = "b" -> "b"
    [] c = "A" -> "1"
    [] c = "B" -> "2"
    [] c = "!" -> "3"
    [] c = " " -> "4"
    [] OTHER -> "5"

\* keywordsToHashes: one hash per keyword, a string of hexadecimal digits
keywordsToHashes(keywords) ==
  [i \in 1..Len(keywords) |->
     <<"0">> \o [j \in 1..Len(keywords[i]) |-> HexOf(keywords[i][j])]]

subjectPlan_listSubjects(st) == SelectSeq(<<"h1", "h2">>, LAMBDA h : h \in DOMAIN st)

\* <<>> for null
subjectPlan_getSubject(st, idHash) ==
  IF idHash \in DOMAIN st THEN <<st[idHash]>> ELSE <<>>

subjectPlan_createSubject(st, fields) ==
  [ store |-> MapSet(st, IdHashOf(fields.id), fields),
    idHash |-> IdHashOf(fields.id) ]

\* the fields of updates that are given replace the stored ones
subjectPlan_updateSubject(st, idHash, updates) ==
  MapSet(st, idHash,
         [ id |-> st[idHash].id,
           description |-> LimitOr(updates.description, st[idHash].description),
           keywords |-> LimitOr(updates.keywords, st[idHash].keywords),
           sources |-> LimitOr(updates.sources, st[idHash].sources) ])

subjectPlan_deleteSubject(st, idHash) ==
  [ store |-> MapDelete(st, idHash), ret |-> idHash \in DOMAIN st ]

(***************************************************************************)
(* SubjectMemoryPlan                                                       *)
(***************************************************************************)
Plan ==
  [ store |-> store,
    subjectCache |-> subjectCache,
    indexInitialized |-> indexInitialized,
    index |-> Index ]

\* the plan after getSubject(idHash) and the subject it returns (<<>> for null)
getSubject(P, idHash) ==
  IF idHash \in DOMAIN P.subjectCache
  THEN [plan |-> P, ret |-> <<P.subjectCache[idHash]>>]
  ELSE LET subject == subjectPlan_getSubject(P.store, idHash)
       IN IF subject # <<>>
          THEN [ plan |-> [P EXCEPT !.subjectCache = MapSet(@, idHash, subject[1])],
                 ret |-> subject ]
          ELSE [plan |-> P, ret |-> <<>>]

\* createIndexEntry({idHash: s.id, name: s.description || s.id, keywords: s.keywords})
ProjectSubject(s) ==
  createIndexEntry(s.id, IF s.description # "" THEN s.description ELSE s.id, s.keywords)

\* the loop of buildIndex over the listed ids
RECURSIVE LoadSubjects(_, _, _)
LoadSubjects(P, subjectIds, loaded) ==
  IF subjectIds = <<>> THEN [plan |-> P, subjects |-> loaded]
  ELSE LET got == getSubject(P, Head(subjectIds))
       IN LoadSubjects(got.plan, Tail(subjectIds), loaded \o got.ret)

buildIndex(P) ==
  LET loaded == LoadSubjects(P, subjectPlan_listSubjects(P.store), <<>>)
      entries == [i \in 1..Len(loaded.subjects) |-> ProjectSubject(loaded.subjects[i])]
  IN [ loaded.plan EXCEPT !.index = buildFromSubjects(@, entries),
                          !.indexInitialized = TRUE ]

\* ensureIndex without the call of buildIndex
ensureIndexSkipped(P) == P

ensureIndex(P) == IF ~P.indexInitialized THEN buildIndex(P) ELSE P

\* the loop of createSubject that looks for a stored subject with the global
\* id: the plan after the getSubject calls and the idHash found (<<>> if none)
RECURSIVE FindExisting(_, _, _)
FindExisting(P, existingSubjects, globalId) ==
  IF existingSubjects = <<>> THEN [plan |-> P, found |-> <<>>]
  ELSE LET got == getSubject(P, Head(existingSubjects))
       IN IF got.ret # <<>> /\ got.ret[1].id = globalId
          THEN [plan |-> got.plan, found |-> <<Head(existingSubjects)>>]
          ELSE FindExisting(got.plan, Tail(existingSubjects), globalId)

\* the sources of the existing subject, then the new ones not among them
RECURSIVE MergeSources(_, _)
MergeSources(mergedSources, sources) ==
  IF sources = <<>> THEN mergedSources
  ELSE LET newSource == Head(sources)
           exists == \E i \in DOMAIN mergedSources :
                       /\ mergedSources[i].type = newSource.type
                       /\ mergedSources[i].id = newSource.id
       IN MergeSources(IF exists THEN mergedSources
                       ELSE Append(mergedSources, newSource),
                       Tail(sources))

\* the merge path of createSubject: the subject stored under existingId gets
\* the description, the merged keywords and the merged sources, and is
\* projected into the index again
mergeIntoExisting(P, existingId, params) ==
  LET existing == getSubject(P, existingId).ret[1]
      mergedSources == MergeSources(existing.sources, params.sources)
      mergedKeywords ==
        AddEach(Dedupe(existing.keywords), keywordsToHashes(params.keywords))
      written ==
        [ P EXCEPT !.store =
            subjectPlan_updateSubject(@, existingId,
              [ description |-> <<params.description>>,
                keywords |-> <<mergedKeywords>>,
                sources |-> <<mergedSources>> ]) ]
      got == getSubject(written, existingId)
  IN [ plan |->
         IF got.ret # <<>> /\ got.plan.indexInitialized
         THEN [ got.plan EXCEPT !.index =
                  updateSubject(@, ProjectSubject(got.ret[1])) ]
         ELSE got.plan,
       idHash |-> existingId ]

\* the creation path of createSubject: the store creates the subject, the
\* plan caches it and adds it to the index
createNewSubject(P, params) ==
  LET keywordHashes == keywordsToHashes(params.keywords)
      created == [ id |-> params.id,
                   description |-> params.description,
                   keywords |-> keywordHashes,
                   sources |-> params.sources ]
      result == subjectPlan_createSubject(P.store, created)
      cached == [ P EXCEPT
                    !.store = result.store,
                    !.subjectCache = MapSet(@, result.idHash, created) ]
  IN [ plan |->
         IF cached.indexInitialized
         THEN [ cached EXCEPT !.index = addSubject(@, ProjectSubject(created)) ]
         ELSE cached,
       idHash |-> result.idHash ]

\* the plan after createSubject(params) and the idHash of its result
createSubject(P, params) ==
  LET check == FindExisting(P, subjectPlan_listSubjects(P.store), params.id)
  IN IF check.found # <<>>
     THEN mergeIntoExisting(check.plan, check.found[1], params)
     ELSE createNewSubject(check.plan, params)

\* the plan after updateSubject(idHash, updates) on a stored subject
planUpdateSubject(P, idHash, updates) ==
  LET written == [ P EXCEPT !.store = subjectPlan_updateSubject(@, idHash, updates) ]
  IN IF written.indexInitialized
     THEN LET got == getSubject(written, idHash)
          IN IF got.ret # <<>>
             THEN [ got.plan EXCEPT !.index =
                      updateSubject(@, ProjectSubject(got.ret[1])) ]
             ELSE got.plan
     ELSE written

\* the plan after deleteSubject(idHash) and the boolean it returns
deleteSubject(P, idHash) ==
  LET result == subjectPlan_deleteSubject(P.store, idHash)
      written == [ P EXCEPT !.store = result.store ]
  IN [ plan |->
         IF result.ret /\ written.indexInitialized
         THEN [ written EXCEPT !.index = removeSubject(@, idHash) ]
         ELSE written,
       ret |-> result.ret ]

\* the plan after searchByKeywords(keywords, limit) and the matches it returns
searchByKeywords(P, keywords, limit) ==
  LET built == ensureIndex(P)
  IN [ plan |-> built, ret |-> findSimilar(built.index, keywords, limit) ]

\* the plan after findSimilar(idHash, limit) and the matches it returns
planFindSimilar(P, idHash, limit) ==
  LET got == getSubject(P, idHash)
  IN IF got.ret = <<>>
     THEN [plan |-> got.plan, ret |-> <<>>]
     ELSE LET subject == got.ret[1]
              built == ensureIndex(got.plan)
              n == LimitOr(limit, DefaultLimit)
              matches == findSimilar(built.index, subject.keywords, <<n + 1>>)
          IN [ plan |-> built,
               ret |-> Slice(SelectSeq(matches, LAMBDA m : m.idHash # idHash), n) ]

(***************************************************************************)
(* Calls on a SubjectMemoryPlan                                            *)
(***************************************************************************)
\* raw keywords of the plan's callers: "a", "B!"
PlanKeywords == { <<"a">>, <<"B", "!">> }

PlanKeywordLists == SeqsUpTo(PlanKeywords, MaxPlanKeywords)

\* the global subject id the plan's callers create and merge into
PlanIds == {"s1"}

Descriptions == {"", "d1", "d2"}

PlanSources == { <<>>, <<[type |-> "chat", id |-> "t1"]>> }

CreateSubjectParams ==
  [ id : PlanIds, description : Descriptions, keywords : PlanKeywordLists,
    sources : PlanSources ]

Optional(S) == {<<>>} \cup { <<v>> : v \in S }

UpdateSubjectParams ==
  [ description : Optional(Descriptions), keywords : Optional(PlanKeywordLists),
    sources : {<<>>} ]

\* what searchByKeywords is asked for: a raw keyword or the hash of one
PlanQueries ==
  { <<k>> : k \in PlanKeywords } \cup { keywordsToHashes(<<k>>) : k \in PlanKeywords }

\* the stores a plan can be constructed over: an empty one, and one that
\* already holds a subject
InitStores ==
  { EmptyMap,
    [ h \in {"h1"} |->
        [ id |-> "s1", description |-> "d1",
          keywords |-> keywordsToHashes(<<<<"a">>>>), sources |-> <<>> ] ] }

SetPlan(P) ==
  /\ store' = P.store
  /\ subjectCache' = P.subjectCache
  /\ indexInitialized' = P.indexInitialized
  /\ SetIndex(P.index)
  /\ UNCHANGED <<pending, serviceVars, storeCreates, importVars>>

InitPlan ==
  /\ subjects = EmptyMap
  /\ keywordToSubjects = EmptyMap
  /\ last = Call("new", <<>>, <<>>, <<>>)
  /\ store \in InitStores
  /\ subjectCache = EmptyMap
  /\ indexInitialized = FALSE
  /\ pending = NoCalls
  /\ configs = EmptyMap
  /\ associations = EmptyMap
  /\ storeCreates = EmptyMap
  /\ imports = NoImports
  /\ events = EmptyMap
  /\ deps = Collaborators

BuildIndex ==
  /\ SetPlan(buildIndex(Plan))
  /\ last' = Call("buildIndex", <<>>, <<>>, <<>>)

\* createSubject(params) for params of the set Params
CreateSubjectOf(Params) ==
  \E params \in Params :
    LET done == createSubject(Plan, params)
    IN /\ SetPlan(done.plan)
       /\ last' = Call("createSubject", params, done.idHash, <<>>)

CreateSubject == CreateSubjectOf(CreateSubjectParams)

\* updateSubject(idHash, updates) for updates of the set Updates
PlanUpdateSubjectOf(Updates) ==
  \E idHash \in DOMAIN store, updates \in Updates :
    /\ SetPlan(planUpdateSubject(Plan, idHash, updates))
    /\ last' = Call("updateSubject", [idHash |-> idHash, updates |-> updates],
                    idHash, <<>>)

PlanUpdateSubject == PlanUpdateSubjectOf(UpdateSubjectParams)

DeleteSubject ==
  \E idHash \in IdHashes :
    LET done == deleteSubject(Plan, idHash)
    IN /\ SetPlan(done.plan)
       /\ last' = Call("deleteSubject", idHash, done.ret, <<>>)

SearchByKeywords ==
  \E keywords \in PlanQueries :
    LET done == searchByKeywords(Plan, keywords, <<>>)
    IN /\ SetPlan(done.plan)
       /\ last' = Call("searchByKeywords", keywords, done.ret, <<>>)

PlanFindSimilar ==
  \E idHash \in IdHashes, limit \in Optional(Limits) :
    LET done == planFindSimilar(Plan, idHash, limit)
    IN /\ SetPlan(done.plan)
       /\ last' = Call("findSimilar", [idHash |-> idHash, limit |-> limit],
                       done.ret, <<>>)

NextPlan ==
  \/ BuildIndex
  \/ CreateSubject
  \/ PlanUpdateSubject
  \/ DeleteSubject
  \/ SearchByKeywords
  \/ PlanFindSimilar

SpecPlan == InitPlan /\ [][NextPlan]_vars

(***************************************************************************)
(* Properties of the plan                                                  *)
(***************************************************************************)
\* the global id of the subject stored under idHash
IdOfHash(idHash) == CHOOSE id \in Ids : IdHashOf(id) = idHash

\* C9: when the index has been built and deleteSubject(idHash) has returned
\* true, the deleted subject has no entry in the index any more, so that no
\* later searchByKeywords returns it.
C9_DeleteRemovesFromIndex ==
  (last.op = "deleteSubject" /\ last.ret = TRUE /\ indexInitialized)
    => IdOfHash(last.arg) \notin DOMAIN subjects

\* C10: when the index has been built and updateSubject(idHash, updates) has
\* returned, the index entry of the subject is the projection (label and
\* keywords) of the subject as the store holds it now.
C10_UpdateReprojects ==
  (last.op = "updateSubject" /\ indexInitialized)
    => LET stored == store[last.arg.idHash]
       IN /\ stored.id \in DOMAIN subjects
          /\ subjects[stored.id] = ProjectSubject(stored)

\* the plan after the step
PlanNext ==
  [ store |-> store',
    subjectCache |-> subjectCache',
    indexInitialized |-> indexInitialized',
    index |-> IndexNext ]

\* C11 (as claimed): when the index has been built and createSubject is
\* called with a non-empty keyword list K for a subject the store does not
\* hold yet, a searchByKeywords(K) after it returns the created subject.
C11_CreateThenSearch ==
  [][ ( /\ last'.op = "createSubject"
        /\ indexInitialized
        /\ IdHashOf(last'.arg.id) \notin DOMAIN store
        /\ last'.arg.keywords # <<>> )
      => last'.arg.id \in
           MatchIds(searchByKeywords(PlanNext, last'.arg.keywords, <<>>).ret) ]_vars

\* C12 (as claimed): after any calls through the plan, a completed
\* buildIndex() leaves the index with exactly one entry per subject the store
\* lists, each with the keywords the store holds for that subject now.
C12_RebuildFromStore ==
  last.op = "buildIndex" =>
    /\ DOMAIN subjects = { store[h].id : h \in DOMAIN store }
    /\ \A h \in DOMAIN store :
         /\ subjects[store[h].id].keywords = store[h].keywords
         /\ subjects[store[h].id].normalizedKeywords =
              Range(normalizeKeywords(store[h].keywords))
    /\ DOMAIN keywordToSubjects =
         UNION { subjects[id].normalizedKeywords : id \in DOMAIN subjects }

\* C13 (as claimed): a createSubject that resolves to a subject the store
\* already holds leaves every keyword and every source the store held for
\* that subject in place: both sets only grow.
C13_AdditiveMerge ==
  [][ ( /\ last'.op = "createSubject"
        /\ IdHashOf(last'.arg.id) \in DOMAIN store )
      => LET h == IdHashOf(last'.arg.id)
         IN /\ Range(store[h].keywords) \subseteq Range(store'[h].keywords)
            /\ Range(store[h].sources) \subseteq Range(store'[h].sources) ]_vars

\* the descriptions a merge of existing and new may result in: one of their
\* concatenations, or the longer of the two
MergedDescriptions(existing, new) ==
  { existing \o new, new \o existing,
    IF Len(new) > Len(existing) THEN new ELSE existing }

\* C14 (as claimed): when createSubject hits a subject the store already
\* holds, the description written is the concatenation of, or the longest of,
\* the existing and the new description.
C14_DescriptionNotOverwritten ==
  [][ ( /\ last'.op = "createSubject"
        /\ IdHashOf(last'.arg.id) \in DOMAIN store )
      => LET h == IdHashOf(last'.arg.id)
         IN store'[h].description \in
              MergedDescriptions(store[h].description, last'.arg.description) ]_vars

\* C15 (as claimed): for a stored subject and a limit >= 0, findSimilar(idHash,
\* limit) of the plan returns at most limit matches and none of them is the
\* subject identified by idHash.
C15_SimilarExcludesSelf ==
  (last.op = "findSimilar" /\ last.arg.idHash \in DOMAIN store) =>
    /\ Len(last.ret) <= LimitOr(last.arg.limit, DefaultLimit)
    /\ store[last.arg.idHash].id \notin MatchIds(last.ret)

(***************************************************************************)
(* Callers that keep the entry object they handed to the index             *)
(*                                                                         *)
(* addSubject and updateSubject put the caller's object itself into the    *)
(* subjects map, so an assignment the caller makes to the fields of that   *)
(* object afterwards is an assignment to the stored entry.                 *)
(***************************************************************************)
\* the caller replaces the keywords and the normalized keywords of an entry
\* object it handed over earlier; the posting lists are not touched
MutateEntry ==
  \E idHash \in DOMAIN subjects, entry \in EntryInputs :
    /\ entry.idHash = idHash
    /\ entry # subjects[idHash]
    /\ subjects' = MapSet(subjects, idHash, entry)
    /\ UNCHANGED keywordToSubjects
    /\ last' = Call("mutate", entry, <<>>, Stored(Index, idHash))
    /\ UNCHANGED planVars

NextAlias ==
  \/ AddSubject
  \/ UpdateSubject
  \/ RemoveSubject
  \/ MutateEntry

SpecAlias == Init /\ [][NextAlias]_vars

\* C16 (as claimed): when the caller changes the entry object it passed to
\* addSubject or updateSubject, the entry getSubject returns and the result
\* of every query stay as they were.
C16_ValueCopies ==
  [][ last'.op = "mutate" =>
        /\ Stored(IndexNext, last'.arg.idHash) = Stored(Index, last'.arg.idHash)
        /\ \A Q \in Queries : findByKeywords(IndexNext, Q) = findByKeywords(Index, Q) ]_vars

\* a query of the plan that is answered from the index: a searchByKeywords,
\* or a findSimilar of a subject that getSubject finds
AnsweredFromIndex ==
  \/ last'.op = "searchByKeywords"
  \/ /\ last'.op = "findSimilar"
     /\ getSubject(Plan, last'.arg.idHash).ret # <<>>

\* C17: a searchByKeywords or findSimilar of the plan is answered from a built
\* index: if the index was not initialized, the call leaves it initialized and
\* holding one complete entry per subject the store lists; if it was
\* initialized, the call leaves the index as it was (no rebuild).
C17_LazyBuild ==
  [][ AnsweredFromIndex =>
        /\ indexInitialized'
        /\ ~indexInitialized =>
             /\ DOMAIN subjects' = { store[h].id : h \in DOMAIN store }
             /\ DOMAIN keywordToSubjects' =
                  UNION { subjects'[id].normalizedKeywords : id \in DOMAIN subjects' }
        /\ indexInitialized => IndexNext = Index
        /\ last'.op = "searchByKeywords" =>
             last'.ret = findSimilar(IndexNext, last'.arg, <<>>) ]_vars

\* a search that was answered with a stored subject
C17_Witness ==
  /\ last.op = "searchByKeywords"
  /\ indexInitialized
  /\ last.ret # <<>>
  /\ MatchIds(last.ret) \subseteq { store[h].id : h \in DOMAIN store }

(***************************************************************************)
(* buildIndex and searchByKeywords, step by step                           *)
(*                                                                         *)
(* An async method runs until its next await and is resumed later; other   *)
(* calls on the same plan run in between.  buildIndex awaits listSubjects  *)
(* and each getSubject; the code after the last await, which maps the      *)
(* subjects to entries, calls buildFromSubjects and sets indexInitialized, *)
(* has no await and runs as one step.  searchByKeywords awaits             *)
(* ensureIndex and then reads the index in one step.  The store is shared: *)
(* its content may change between the steps.                               *)
(***************************************************************************)
RebuildSubjects ==
  [ h \in IdHashes |->
      IF h = "h1"
      THEN [ id |-> "s1", description |-> "d1",
             keywords |-> keywordsToHashes(<<<<"a">>>>), sources |-> <<>> ]
      ELSE [ id |-> "s2", description |-> "d2",
             keywords |-> keywordsToHashes(<<<<"a">>, <<"B", "!">>>>), sources |-> <<>> ] ]

RebuildStores == { [h \in H |-> RebuildSubjects[h]] : H \in SUBSET IdHashes }

InitRebuild ==
  /\ subjects = EmptyMap
  /\ keywordToSubjects = EmptyMap
  /\ last = Call("new", <<>>, <<>>, <<>>)
  /\ store \in RebuildStores
  /\ subjectCache = EmptyMap
  /\ indexInitialized = FALSE
  /\ pending = NoCalls
  /\ configs = EmptyMap
  /\ associations = EmptyMap
  /\ storeCreates = EmptyMap
  /\ imports = NoImports
  /\ events = EmptyMap
  /\ deps = Collaborators

\* buildIndex() is called and suspends with the listed ids
BeginBuildIndex ==
  /\ pending["buildIndex"].pc = "idle"
  /\ pending' = [pending EXCEPT !["buildIndex"] =
                   [Idle EXCEPT !.pc = "load", !.ids = subjectPlan_listSubjects(store)]]
  /\ UNCHANGED <<subjects, keywordToSubjects, last, store, subjectCache, indexInitialized, serviceVars, storeCreates, importVars>>

\* searchByKeywords(keywords) is called: ensureIndex starts a buildIndex if
\* the index is not initialized
BeginSearchByKeywords ==
  \E keywords \in PlanQueries :
    /\ pending["searchByKeywords"].pc = "idle"
    /\ pending' = [pending EXCEPT !["searchByKeywords"] =
                     IF indexInitialized
                     THEN [Idle EXCEPT !.pc = "answer", !.keywords = keywords]
                     ELSE [Idle EXCEPT !.pc = "load", !.keywords = keywords,
                                       !.ids = subjectPlan_listSubjects(store)]]
    /\ UNCHANGED <<subjects, keywordToSubjects, last, store, subjectCache, indexInitialized, serviceVars, storeCreates, importVars>>

\* one pass of the loop of buildIndex: getSubject of the next id
LoadSubject(c) ==
  /\ pending[c].pc = "load"
  /\ pending[c].ids # <<>>
  /\ LET got == getSubject(Plan, Head(pending[c].ids))
     IN /\ subjectCache' = got.plan.subjectCache
        /\ pending' = [pending EXCEPT ![c].ids = Tail(@), ![c].loaded = @ \o got.ret]
  /\ UNCHANGED <<subjects, keywordToSubjects, last, store, indexInitialized, serviceVars, storeCreates, importVars>>

\* the rest of buildIndex after its last await
CompleteBuild(c) ==
  /\ pending[c].pc = "load"
  /\ pending[c].ids = <<>>
  /\ LET loaded == pending[c].loaded
         entries == [i \in 1..Len(loaded) |-> ProjectSubject(loaded[i])]
     IN SetIndex(buildFromSubjects(Index, entries))
  /\ indexInitialized' = TRUE
  /\ IF c = "buildIndex"
     THEN /\ pending' = [pending EXCEPT ![c] = Idle]
          /\ last' = Call("buildIndex", <<>>, <<>>, <<>>)
     ELSE /\ pending' = [pending EXCEPT ![c].pc = "answer", ![c].loaded = <<>>]
          /\ UNCHANGED last
  /\ UNCHANGED <<store, subjectCache, serviceVars, storeCreates, importVars>>

\* searchByKeywords after its await: index.findSimilar(keywords, limit)
AnswerSearchByKeywords ==
  /\ pending["searchByKeywords"].pc = "answer"
  /\ last' = Call("searchByKeywords", pending["searchByKeywords"].keywords,
                  findSimilar(Index, pending["searchByKeywords"].keywords, <<>>), <<>>)
  /\ pending' = [pending EXCEPT !["searchByKeywords"] = Idle]
  /\ UNCHANGED <<subjects, keywordToSubjects, store, subjectCache, indexInitialized, serviceVars, storeCreates, importVars>>

\* another user of the store adds or deletes subjects
StoreChanges ==
  \E st \in RebuildStores :
    /\ st # store
    /\ store' = st
    /\ UNCHANGED <<subjects, keywordToSubjects, last, subjectCache, indexInitialized, pending, serviceVars, storeCreates, importVars>>

NextRebuild ==
  \/ BeginBuildIndex
  \/ BeginSearchByKeywords
  \/ \E c \in AsyncCalls : LoadSubject(c)
  \/ \E c \in AsyncCalls : CompleteBuild(c)
  \/ AnswerSearchByKeywords
  \/ StoreChanges

SpecRebuild == InitRebuild /\ [][NextRebuild]_vars

\* every entry is in the posting list of each of its keywords, and the
\* posting lists hold nothing else
WholeIndex(idx) ==
  /\ DOMAIN idx.keywordToSubjects =
       UNION { idx.subjects[id].normalizedKeywords : id \in DOMAIN idx.subjects }
  /\ \A k \in DOMAIN idx.keywordToSubjects :
       Range(idx.keywordToSubjects[k]) =
         { id \in DOMAIN idx.subjects : k \in idx.subjects[id].normalizedKeywords }

\* the step in which call c leaves the loop of buildIndex
Completes(c) == pending[c].pc = "load" /\ pending'[c].pc # "load"

\* C18: under every interleaving of buildIndex with queries, the index changes
\* only in the step that ends a build, and after that step it holds a whole
\* entry for every subject the build loaded: a query, which reads the index
\* in one step, sees it as it was before the rebuild or as it is after it,
\* never cleared or partly filled.
C18_NoTornRebuild ==
  [][ /\ IndexNext # Index => \E c \in AsyncCalls : Completes(c)
      /\ \A c \in AsyncCalls :
           Completes(c) =>
             /\ DOMAIN subjects' =
                  { pending[c].loaded[i].id : i \in DOMAIN pending[c].loaded }
             /\ WholeIndex(IndexNext)
      /\ (pending["searchByKeywords"].pc = "answer" /\ pending'["searchByKeywords"].pc = "idle")
           => /\ IndexNext = Index
              /\ last'.ret = findSimilar(Index, last'.arg, <<>>) ]_vars

\* a query was answered from the index of an earlier build while a buildIndex
\* is suspended in its loop with a subject loaded
C18_Witness ==
  /\ last.op = "searchByKeywords"
  /\ last.ret # <<>>
  /\ pending["buildIndex"].pc = "load"
  /\ pending["buildIndex"].loaded # <<>>
  /\ pending["buildIndex"].ids # <<>>

(***************************************************************************)
(* Calls of the keyword normalizer                                         *)
(***************************************************************************)
\* characters per keyword handed to the normalizer
MaxChars == 3

\* a lower-case and an upper-case ASCII letter, the underscore, two
\* punctuation characters, the space and a letter outside ASCII
NormalizeChars == {"a", "B", "_", "-", "!", " ", "é"}

\* "Project-Lama!!"
ProjectLamaRaw ==
  << "P", "r", "o", "j", "e", "c", "t", "-", "L", "a", "m", "a", "!", "!" >>

\* "project lama"
ProjectLamaSpaced ==
  << "p", "r", "o", "j", "e", "c", "t", " ", "l", "a", "m", "a" >>

NormalizeInputs ==
  SeqsUpTo(NormalizeChars, MaxChars) \cup {ProjectLamaRaw, ProjectLamaSpaced}

NormalizeKeyword ==
  \E keyword \in NormalizeInputs :
    /\ last' = Call("normalizeKeyword", keyword, normalizeKeyword(keyword), <<>>)
    /\ UNCHANGED <<subjects, keywordToSubjects>>
    /\ UNCHANGED planVars

NextNormalize == NormalizeKeyword

SpecNormalize == Init /\ [][NextNormalize]_vars

\* the letters of the characters used here
IsLetter(c) ==
  c \in Range(UpperCaseLetters) \cup Range(LowerCaseLetters) \cup {"é"}

\* normalization as the claim words it: lower case, keep letters, digits and
\* whitespace only, trim
KeepLettersDigitsSpaces(keyword) ==
  Trim(SelectSeq([i \in 1..Len(keyword) |-> ToLowerCase(keyword[i])],
                 LAMBDA c : IsLetter(c) \/ c \in Digits \/ IsSpaceChar(c)))

\* C19 (as claimed): normalizing a keyword lowercases it, removes every
\* character that is not a letter, digit or whitespace and trims it;
\* "Project-Lama!!" and "project lama" both normalize to "project lama"; the
\* query-side normalizer and createIndexEntry apply the same function.
C19_NormalizationScheme ==
  last.op = "normalizeKeyword" =>
    /\ last.ret = KeepLettersDigitsSpaces(last.arg)
    /\ last.arg \in {ProjectLamaRaw, ProjectLamaSpaced} => last.ret = ProjectLamaSpaced
    /\ normalizeKeywords(<<last.arg>>) = <<last.ret>>
    /\ createIndexEntry("s1", "n", <<last.arg>>).normalizedKeywords = {last.ret}

\* C20: for every input string x, normalize returns a string and
\* normalize(normalize(x)) equals normalize(x).
C20_NormalizeIdempotent ==
  last.op = "normalizeKeyword" =>
    /\ last.ret \in Seq(NormalizeChars \cup WordChars)
    /\ normalizeKeyword(last.ret) = last.ret

\* a keyword that lost a punctuation character, a space at its edge and an
\* upper-case letter
C20_Witness ==
  /\ last.op = "normalizeKeyword"
  /\ last.arg = <<"!", " ", "B">>
  /\ last.ret = <<"b">>

(***************************************************************************)
(* Subjects projected by createIndexEntry from raw keywords                *)
(***************************************************************************)
\* raw keywords: a word, a punctuation character, a space
ProjectKeywords == { <<"a">>, <<"!">>, <<" ">> }

AddProjectedSubject ==
  \E idHash \in Ids, keywords \in SeqsUpTo(ProjectKeywords, MaxKeywords) :
    LET entry == createIndexEntry(idHash, "n", keywords)
    IN /\ SetIndex(addSubject(Index, entry))
       /\ last' = Call("addSubject", entry, <<>>, Stored(Index, idHash))
       /\ UNCHANGED planVars

NextProject ==
  \/ AddProjectedSubject
  \/ RemoveSubject

SpecProject == Init /\ [][NextProject]_vars

\* C21 (as claimed): the normalized-keyword set of every indexed entry and
\* the keys of the posting lists never contain the empty string.
C21_NoEmptyKeyword ==
  /\ \A id \in DOMAIN subjects : <<>> \notin subjects[id].normalizedKeywords
  /\ <<>> \notin DOMAIN keywordToSubjects

\* C22: removeSubject of an id with no stored entry returns false and leaves
\* entries and posting lists as they were; of a stored id it returns true.
C22_RemoveUnknown ==
  [][ last'.op = "removeSubject" =>
        IF last'.arg \in DOMAIN subjects
        THEN last'.ret = TRUE
        ELSE last'.ret = FALSE /\ IndexNext = Index ]_vars

\* removeSubject of an id that is not stored but still is in a posting list
C22_Witness ==
  /\ last.op = "removeSubject"
  /\ last.ret = FALSE
  /\ \E k \in DOMAIN keywordToSubjects : last.arg \in Range(keywordToSubjects[k])

\* normalized query keyword q is a keyword of the entry, or is contained in
\* one, or contains one
Related(q, entry) ==
  \/ q \in entry.normalizedKeywords
  \/ \E k \in entry.normalizedKeywords :
       \/ \E i \in 1..Len(k) : \E j \in i-1..Len(k) : SubSeq(k, i, j) = q
       \/ \E i \in 1..Len(q) : \E j \in i-1..Len(q) : SubSeq(q, i, j) = k

\* C23: for every match of findByKeywords, matchingKeywords lists exactly the
\* normalized query keywords related to the subject by equality or as
\* substring or superstring of one of its keywords, each once and in the
\* order of the query, and is not empty.
C23_MatchingKeywords ==
  \A Q \in Queries :
    LET matches == findByKeywords(Index, Q)
        normalized == Dedupe(normalizeKeywords(Q))
    IN \A i \in DOMAIN matches :
         /\ matches[i].matchingKeywords =
              SelectSeq(normalized, LAMBDA q : Related(q, subjects[matches[i].idHash]))
         /\ matches[i].matchingKeywords # <<>>

\* a match with a query keyword that is no keyword of the subject
C23_Witness ==
  \E Q \in Queries :
    \E m \in Range(findByKeywords(Index, Q)) :
      /\ Len(m.matchingKeywords) = 2
      /\ \E q \in Range(m.matchingKeywords) : q \notin subjects[m.idHash].normalizedKeywords

(***************************************************************************)
(* ChatMemoryService: configuration of topics and the extraction of        *)
(* subjects from the messages of a topic.  A confidence is the exact       *)
(* fraction [num, den]; strings that the code lower-cases or searches for  *)
(* white space are sequences of characters.                                *)
(***************************************************************************)
Service == [configs |-> configs, associations |-> associations, deps |-> deps]

\* the number of keywords of a message that make up a candidate: slice(0, 3)
TopKeywords == 3

\* config.minConfidence ?? 0.5
DefaultMinConfidence == [num |-> 1, den |-> 2]

\* String.prototype.toLowerCase
toLowerCase(str) == [i \in 1..Len(str) |-> ToLowerCase(str[i])]

\* Array.prototype.join
RECURSIVE join(_, _)
join(strs, sep) ==
  IF strs = <<>> THEN <<>>
  ELSE IF Len(strs) = 1 THEN strs[1]
  ELSE strs[1] \o sep \o join(Tail(strs), sep)

\* str.replace(/\s+/g, '-')
RECURSIVE ReplaceWhitespace(_, _)
ReplaceWhitespace(str, inRun) ==
  IF str = <<>> THEN <<>>
  ELSE IF Head(str) = " "
       THEN (IF inRun THEN <<>> ELSE <<"-">>) \o ReplaceWhitespace(Tail(str), TRUE)
       ELSE <<Head(str)>> \o ReplaceWhitespace(Tail(str), FALSE)

\* enableMemories(topicId, config): config carries minConfidence or nothing
enableMemories(S, topicId, config) ==
  LET memoryConfig ==
        [ topicId |-> topicId,
          enabled |-> TRUE,
          autoExtract |-> TRUE,
          updateInterval |-> 60000,
          minConfidence |-> IF config = <<>> THEN DefaultMinConfidence ELSE config[1],
          keywords |-> <<>> ]
  IN [ service |-> [S EXCEPT !.configs = MapSet(S.configs, topicId, memoryConfig)],
       ret |-> memoryConfig ]

\* disableMemories(topicId)
disableMemories(S, topicId) ==
  IF topicId \in DOMAIN S.configs
  THEN [S EXCEPT !.configs = MapSet(S.configs, topicId,
                                    [S.configs[topicId] EXCEPT !.enabled = FALSE])]
  ELSE S

\* a mutant of isEnabled: every topic counts as enabled
isEnabledAlways(S, topicId) == TRUE

\* isEnabled(topicId): config?.enabled ?? false
isEnabled(S, topicId) ==
  IF topicId \in DOMAIN S.configs THEN S.configs[topicId].enabled ELSE FALSE

\* getConfig(topicId): the config, or nothing
getConfig(S, topicId) ==
  IF topicId \in DOMAIN S.configs THEN <<S.configs[topicId]>> ELSE <<>>

\* getMessages(topicId, undefined, limit): entries are the messages of the
\* channel, newest first; the answer is cut to the limit when there is one
getMessages(S, entries, limit) ==
  IF "channelManager" \notin S.deps
  THEN [ok |-> FALSE, retrieved |-> FALSE, messages |-> <<>>]
  ELSE [ ok |-> TRUE, retrieved |-> TRUE,
         messages |-> IF limit # <<>> /\ limit[1] > 0
                      THEN SubSeq(entries, 1, Min(limit[1], Len(entries)))
                      ELSE entries ]

\* the loop over the keywords of a message: allKeywords.set(normalized, count + 1)
RECURSIVE CountKeywords(_, _)
CountKeywords(allKeywords, keywords) ==
  IF keywords = <<>> THEN allKeywords
  ELSE LET normalized == toLowerCase(Head(keywords))
           count == IF normalized \in DOMAIN allKeywords THEN allKeywords[normalized] ELSE 0
       IN CountKeywords(MapSet(allKeywords, normalized, count + 1), Tail(keywords))

\* topKeywords.reduce((sum, kw) => sum + (allKeywords.get(lower(kw)) || 1), 0)
RECURSIVE SumFrequencies(_, _)
SumFrequencies(allKeywords, topKeywords) ==
  IF topKeywords = <<>> THEN 0
  ELSE LET k == toLowerCase(Head(topKeywords))
       IN (IF k \in DOMAIN allKeywords /\ allKeywords[k] # 0 THEN allKeywords[k] ELSE 1)
          + SumFrequencies(allKeywords, Tail(topKeywords))

\* a mutant of calculateConfidence: divides by the number of top keywords only
calculateConfidencePerKeyword(sum, length, total) ==
  IF sum >= length THEN [num |-> 1, den |-> 1] ELSE [num |-> sum, den |-> length]

\* avgFreq = sum / topKeywords.length; Math.min(avgFreq / messages.length, 1.0)
calculateConfidence(sum, length, total) ==
  IF sum >= length * total
  THEN [num |-> 1, den |-> 1]
  ELSE [num |-> sum, den |-> length * total]

\* a mutant of meetsMinConfidence: the threshold itself is rejected
meetsMinConfidenceStrictly(confidence, config) ==
  ScoreLess(IF config = <<>> THEN DefaultMinConfidence ELSE config[1].minConfidence,
            confidence)

\* confidence >= (config?.minConfidence ?? 0.5)
meetsMinConfidence(confidence, config) ==
  ~ScoreLess(confidence,
             IF config = <<>> THEN DefaultMinConfidence ELSE config[1].minConfidence)

\* one pass of the loop over the messages.  acc holds allKeywords,
\* extractedSubjects and the texts handed to topicAnalyzer.extractKeywords;
\* analyzer[text] is what extractKeywords does for the text: it throws, or it
\* answers its keywords
processMessage(acc, message, analyzer, total, config) ==
  LET asked == [acc EXCEPT !.requested = Append(@, message)]
      keywords == analyzer[message].keywords
  IN IF analyzer[message].throws THEN asked
     ELSE IF Len(keywords) = 0 THEN asked
     ELSE LET allKeywords == CountKeywords(acc.allKeywords, keywords)
              topKeywords == SubSeq(keywords, 1, Min(TopKeywords, Len(keywords)))
              confidence == calculateConfidence(SumFrequencies(allKeywords, topKeywords),
                                                Len(topKeywords), total)
              subject == [ name |-> join(topKeywords, <<" ">>),
                           keywords |-> topKeywords,
                           confidence |-> confidence,
                           description |-> message ]
          IN [ asked EXCEPT
                 !.allKeywords = allKeywords,
                 !.extractedSubjects =
                   IF meetsMinConfidence(confidence, config) THEN Append(@, subject) ELSE @ ]

\* a mutant of ProcessMessages: the first failing extraction ends the loop
RECURSIVE ProcessMessagesUntilFailure(_, _, _, _, _)
ProcessMessagesUntilFailure(acc, messages, analyzer, total, config) ==
  IF messages = <<>> \/ analyzer[Head(messages)].throws THEN acc
  ELSE ProcessMessagesUntilFailure(processMessage(acc, Head(messages), analyzer, total, config),
                                   Tail(messages), analyzer, total, config)

\* for (const message of messages) { try { ... } catch { log } }
RECURSIVE ProcessMessages(_, _, _, _, _)
ProcessMessages(acc, messages, analyzer, total, config) ==
  IF messages = <<>> THEN acc
  ELSE ProcessMessages(processMessage(acc, Head(messages), analyzer, total, config),
                       Tail(messages), analyzer, total, config)

\* a mutant of deduplicateSubjects: the first subject of a key is kept
RECURSIVE deduplicateSubjectsKeepFirst(_)
deduplicateSubjectsKeepFirst(extracted) ==
  IF extracted = <<>> THEN <<>>
  ELSE LET rest == deduplicateSubjectsKeepFirst(SubSeq(extracted, 1, Len(extracted) - 1))
           subject == extracted[Len(extracted)]
       IN IF \E i \in 1..Len(rest) : toLowerCase(rest[i].name) = toLowerCase(subject.name)
          THEN rest
          ELSE Append(rest, subject)

\* the loop of deduplicateSubjects: seen keeps one subject per key, in the
\* order the keys were first set
RECURSIVE Deduplicate(_, _)
Deduplicate(seen, extracted) ==
  IF extracted = <<>> THEN seen
  ELSE LET subject == Head(extracted)
           key == toLowerCase(subject.name)
           at == { i \in 1..Len(seen) : toLowerCase(seen[i].name) = key }
       IN IF at = {}
          THEN Deduplicate(Append(seen, subject), Tail(extracted))
          ELSE LET i == CHOOSE j \in at : TRUE
               IN IF ScoreLess(seen[i].confidence, subject.confidence)
                  THEN Deduplicate([seen EXCEPT ![i] = subject], Tail(extracted))
                  ELSE Deduplicate(seen, Tail(extracted))

\* deduplicateSubjects(subjects)
deduplicateSubjects(extracted) == Deduplicate(<<>>, extracted)

\* deps.memoryPlan.createSubject(params): the collaborator answers the
\* identity hash of the subject it stored under params.id
memoryPlan_createSubject(params) == [idHash |-> [hashOf |-> params.id]]

\* createAssociation(topicId, subjectIdHash, keywords, confidence)
createAssociation(S, topicId, subjectIdHash, keywords, confidence) ==
  LET association == [ id |-> <<topicId, subjectIdHash>>,
                       topicId |-> topicId,
                       subjectIdHash |-> subjectIdHash,
                       keywords |-> keywords,
                       confidence |-> confidence,
                       messageCount |-> 1 ]
      existing == IF topicId \in DOMAIN S.associations THEN S.associations[topicId] ELSE <<>>
  IN [S EXCEPT !.associations = MapSet(S.associations, topicId, Append(existing, association))]

\* storeSubjectAsMemory(topicId, subject): the call of createSubject it makes
\* and the service with the new association
storeSubjectAsMemory(S, topicId, subject) ==
  LET params == [ id |-> <<"c", "h", "a", "t", "-">> \o topicId \o <<"-">>
                           \o ReplaceWhitespace(toLowerCase(subject.name), FALSE),
                  name |-> subject.name,
                  description |-> subject.description,
                  keywords |-> join(subject.keywords, <<",">>),
                  confidence |-> subject.confidence ]
      result == memoryPlan_createSubject(params)
  IN [ service |-> createAssociation(S, topicId, result.idHash,
                                     subject.keywords, subject.confidence),
       created |-> params ]

\* for (const subject of uniqueSubjects) await storeSubjectAsMemory(topicId, subject)
RECURSIVE StoreSubjects(_, _, _, _)
StoreSubjects(S, topicId, uniqueSubjects, created) ==
  IF uniqueSubjects = <<>> THEN [service |-> S, created |-> created]
  ELSE LET stored == storeSubjectAsMemory(S, topicId, Head(uniqueSubjects))
       IN StoreSubjects(stored.service, topicId, Tail(uniqueSubjects),
                        Append(created, stored.created))

\* what a call of extractAndStoreSubjects that throws has done
Thrown(S, error, retrieved) ==
  [ service |-> S,
    ret |-> [ ok |-> FALSE, error |-> error, retrieved |-> retrieved,
              requested |-> <<>>, created |-> <<>>,
              subjects |-> <<>>, totalMessages |-> 0 ] ]

\* extractAndStoreSubjects(request): request carries topicId and limit;
\* entries are the messages of the topic's channel and analyzer is the
\* behaviour of topicAnalyzer.extractKeywords.  ret records the response and
\* the calls made to the collaborators
extractAndStoreSubjects(S, request, entries, analyzer) ==
  IF ~isEnabled(S, request.topicId)
  THEN Thrown(S, "Memories not enabled for topic", FALSE)
  ELSE IF "topicAnalyzer" \notin S.deps
  THEN Thrown(S, "Topic analyzer not available", FALSE)
  ELSE IF "memoryPlan" \notin S.deps
  THEN Thrown(S, "Memory plan not available", FALSE)
  ELSE
    LET config == getConfig(S, request.topicId)
        got == getMessages(S, entries, request.limit)
    IN IF ~got.ok
       THEN Thrown(S, "ChannelManager not available", got.retrieved)
       ELSE
         LET messages == got.messages
             done == ProcessMessages([ allKeywords |-> EmptyMap,
                                       extractedSubjects |-> <<>>,
                                       requested |-> <<>> ],
                                     messages, analyzer, Len(messages), config)
             uniqueSubjects == deduplicateSubjects(done.extractedSubjects)
             stored == StoreSubjects(S, request.topicId, uniqueSubjects, <<>>)
         IN [ service |-> stored.service,
              ret |-> [ ok |-> TRUE, error |-> "", retrieved |-> TRUE,
                        requested |-> done.requested,
                        created |-> stored.created,
                        subjects |-> done.extractedSubjects,
                        totalMessages |-> Len(messages) ] ]

(***************************************************************************)
(* The service under calls of enableMemories, disableMemories and          *)
(* extractAndStoreSubjects.                                                *)
(***************************************************************************)
MaxMessages == 3

MaxAssociations == 3

Topics == { <<"t", "1">> }

\* the texts of the messages of a channel, newest first
Texts == <<"m1", "m2", "m3">>

\* thresholds a caller configures
MinConfidences == { [num |-> 1, den |-> 3], [num |-> 1, den |-> 1] }

\* what topicAnalyzer.extractKeywords can do for a message
Extractions ==
  { [throws |-> TRUE, keywords |-> <<>>] } \cup
  { [throws |-> FALSE, keywords |-> ks] :
      ks \in { <<>>,
               << <<"a">> >>,
               << <<"A">> >>,
               << <<"a", "!">> >>,
               << <<"a">>, <<"b">>, <<"a">>, <<"c">> >> } }

\* the services constructed: with every collaborator, or lacking one
ServiceDeps == {Collaborators} \cup { Collaborators \ {c} : c \in Collaborators }

SetService(S) ==
  /\ configs' = S.configs
  /\ associations' = S.associations
  /\ deps' = S.deps

indexVars ==
  <<subjects, keywordToSubjects, store, subjectCache, indexInitialized, pending, storeCreates,
    importVars>>

InitService ==
  /\ subjects = EmptyMap
  /\ keywordToSubjects = EmptyMap
  /\ last = Call("new", <<>>, <<>>, <<>>)
  /\ store = EmptyMap
  /\ subjectCache = EmptyMap
  /\ indexInitialized = FALSE
  /\ pending = NoCalls
  /\ configs = EmptyMap
  /\ associations = EmptyMap
  /\ storeCreates = EmptyMap
  /\ imports = NoImports
  /\ events = EmptyMap
  /\ deps \in ServiceDeps

\* enableMemories(topicId, config) for a topic of T
EnableMemoriesOn(T) ==
  \E topicId \in T, config \in Optional(MinConfidences) :
    LET done == enableMemories(Service, topicId, config)
    IN /\ SetService(done.service)
       /\ last' = Call("enableMemories", <<topicId, config>>, done.ret, <<>>)
       /\ UNCHANGED indexVars

EnableMemories == EnableMemoriesOn(Topics)

\* disableMemories(topicId) for a topic of T
DisableMemoriesOn(T) ==
  \E topicId \in T :
    /\ SetService(disableMemories(Service, topicId))
    /\ last' = Call("disableMemories", topicId, <<>>, <<>>)
    /\ UNCHANGED indexVars

DisableMemories == DisableMemoriesOn(Topics)

ExtractAndStoreSubjects ==
  \E topicId \in Topics, limit \in Optional({1}), n \in 0..MaxMessages :
    /\ n + (IF topicId \in DOMAIN associations THEN Len(associations[topicId]) ELSE 0)
         <= MaxAssociations
    /\ \E analyzer \in [Range(SubSeq(Texts, 1, n)) -> Extractions] :
      LET request == [topicId |-> topicId, limit |-> limit]
          entries == SubSeq(Texts, 1, n)
          done == extractAndStoreSubjects(Service, request, entries, analyzer)
      IN /\ SetService(done.service)
         /\ last' = Call("extractAndStoreSubjects",
                         [request |-> request, entries |-> entries, analyzer |-> analyzer],
                         done.ret, <<>>)
         /\ UNCHANGED indexVars

NextService ==
  \/ EnableMemories
  \/ DisableMemories
  \/ ExtractAndStoreSubjects

SpecService == InitService /\ [][NextService]_vars

\* the last call is extractAndStoreSubjects
Extracted == last.op = "extractAndStoreSubjects"

\* the messages the last call of extractAndStoreSubjects had to process
Batch ==
  LET entries == last.arg.entries
      limit == last.arg.request.limit
  IN IF limit = <<>> THEN entries ELSE SubSeq(entries, 1, Min(limit[1], Len(entries)))

\* the topic of the last call has a config that is enabled
TopicEnabled ==
  /\ last.arg.request.topicId \in DOMAIN configs
  /\ configs[last.arg.request.topicId].enabled

\* C24: when the topic is not enabled, or the keyword extractor or the
\* subject store is missing, extractAndStoreSubjects fails before it retrieves
\* a message, asks for an extraction or writes a subject, and leaves configs
\* and associations as they were.
C24_PreconditionsFirst ==
  [][ ( /\ last'.op = "extractAndStoreSubjects"
        /\ \/ last'.arg.request.topicId \notin DOMAIN configs
           \/ ~configs[last'.arg.request.topicId].enabled
           \/ "topicAnalyzer" \notin deps
           \/ "memoryPlan" \notin deps )
      => /\ ~last'.ret.ok
         /\ ~last'.ret.retrieved
         /\ last'.ret.requested = <<>>
         /\ last'.ret.created = <<>>
         /\ configs' = configs
         /\ associations' = associations ]_vars

\* a call for a disabled topic that has messages and associations
C24_Witness ==
  /\ Extracted
  /\ ~last.ret.ok
  /\ last.ret.error = "Memories not enabled for topic"
  /\ last.arg.entries # <<>>
  /\ last.arg.request.topicId \in DOMAIN configs
  /\ last.arg.request.topicId \in DOMAIN associations

\* the analyzer with every failing extraction replaced by an empty answer
WithoutFailures(analyzer) ==
  [m \in DOMAIN analyzer |-> [throws |-> FALSE, keywords |-> analyzer[m].keywords]]

\* C25: with the preconditions met, extractAndStoreSubjects returns normally
\* whatever extractions fail or answer no keyword: it asks for the extraction
\* of every message of the batch, reports totalMessages as the size of the
\* batch, and returns the subjects it returns when the failing extractions
\* answer no keyword instead.
C25_FailuresSkipped ==
  (Extracted /\ TopicEnabled /\ deps = Collaborators)
  => /\ last.ret.ok
     /\ last.ret.requested = Batch
     /\ last.ret.totalMessages = Len(Batch)
     /\ last.ret.subjects =
          extractAndStoreSubjects([Service EXCEPT !.associations = EmptyMap],
                                  last.arg.request, last.arg.entries,
                                  WithoutFailures(last.arg.analyzer)).ret.subjects

\* a batch whose first extraction fails, whose second answers nothing and
\* whose third gives a subject that is written
C25_Witness ==
  /\ Extracted
  /\ last.ret.ok
  /\ Len(Batch) = 3
  /\ last.arg.analyzer[Batch[1]].throws
  /\ ~last.arg.analyzer[Batch[2]].throws
  /\ last.arg.analyzer[Batch[2]].keywords = <<>>
  /\ \E i \in 1..Len(last.ret.created) : last.ret.created[i].description = Batch[3]

\* the place in the batch of the message a returned subject was made from
PlaceOf(subject) == CHOOSE i \in 1..Len(Batch) : Batch[i] = subject.description

\* the keywords extracted from the i-th message of the batch
KeywordsAt(i) ==
  IF last.arg.analyzer[Batch[i]].throws THEN <<>> ELSE last.arg.analyzer[Batch[i]].keywords

\* how often keyword k, compared without case, was extracted from the
\* messages 1..i of the batch
RECURSIVE RunningCount(_, _)
RunningCount(k, i) ==
  IF i = 0 THEN 0
  ELSE Cardinality({ j \in 1..Len(KeywordsAt(i)) : toLowerCase(KeywordsAt(i)[j]) = k })
       + RunningCount(k, i - 1)

\* the lower-cased keywords counted in the messages 1..i of the batch
CountedThrough(i) ==
  UNION { { toLowerCase(KeywordsAt(j)[n]) : n \in 1..Len(KeywordsAt(j)) } : j \in 1..i }

\* the last call returned normally
Returned == Extracted /\ last.ret.ok

\* C26: the label of every returned subject joins its keywords, and its
\* keywords are 3 keywords (all, when fewer were counted) of highest
\* running count among the keywords counted up to and including its message.
C26_TopFrequentSoFar ==
  Returned =>
    \A n \in 1..Len(last.ret.subjects) :
      LET subject == last.ret.subjects[n]
          i == PlaceOf(subject)
          label == { toLowerCase(subject.keywords[j]) : j \in 1..Len(subject.keywords) }
      IN /\ subject.name = join(subject.keywords, <<" ">>)
         /\ Cardinality(label) = Min(TopKeywords, Cardinality(CountedThrough(i)))
         /\ \A k \in label, o \in CountedThrough(i) \ label :
              RunningCount(o, i) <= RunningCount(k, i)

\* the running count of the i-th message's label keywords, averaged, over
\* the size of the batch, capped at 1: sum / (length * total)
ExpectedConfidence(keywords, i) ==
  LET counts == [j \in 1..Len(keywords) |-> RunningCount(toLowerCase(keywords[j]), i)]
      sum == IF Len(counts) = 0 THEN 0
             ELSE IF Len(counts) = 1 THEN counts[1]
             ELSE IF Len(counts) = 2 THEN counts[1] + counts[2]
             ELSE counts[1] + counts[2] + counts[3]
  IN [num |-> sum, den |-> Len(keywords) * Len(Batch)]

SameFraction(a, b) == a.num * b.den = b.num * a.den

One == [num |-> 1, den |-> 1]

\* C27: the confidence of every returned subject is the average running
\* count of its keywords at its message, divided by the number of messages of
\* the batch and capped at 1; it is above 0 and at most 1.
C27_Confidence ==
  Returned =>
    \A n \in 1..Len(last.ret.subjects) :
      LET subject == last.ret.subjects[n]
          expected == ExpectedConfidence(subject.keywords, PlaceOf(subject))
      IN /\ SameFraction(subject.confidence,
                         IF ScoreLess(One, expected) THEN One ELSE expected)
         /\ subject.confidence.num > 0
         /\ subject.confidence.den > 0
         /\ ~ScoreLess(One, subject.confidence)

\* a returned subject with a confidence below 1 and one that the cap cut to 1
C27_Witness ==
  /\ Returned
  /\ \E n \in 1..Len(last.ret.subjects) : ScoreLess(last.ret.subjects[n].confidence, One)
  /\ \E n \in 1..Len(last.ret.subjects) :
       ScoreLess(One, ExpectedConfidence(last.ret.subjects[n].keywords,
                                         PlaceOf(last.ret.subjects[n])))

\* the threshold of the topic of the last call
Threshold == configs[last.arg.request.topicId].minConfidence

\* the confidence the i-th message's candidate has by the formula of C27
CandidateConfidence(i) ==
  LET keywords == SubSeq(KeywordsAt(i), 1, Min(TopKeywords, Len(KeywordsAt(i))))
      expected == ExpectedConfidence(keywords, i)
  IN IF ScoreLess(One, expected) THEN One ELSE expected

\* C28: enableMemories without a minConfidence configures 0.5; a call of
\* extractAndStoreSubjects returns a subject for exactly the messages whose
\* candidate has a confidence at or above the topic's minConfidence, and
\* persists no subject below it.
C28_MinConfidence ==
  /\ last.op = "enableMemories" =>
       configs[last.arg[1]].minConfidence =
         IF last.arg[2] = <<>> THEN [num |-> 1, den |-> 2] ELSE last.arg[2][1]
  /\ Returned =>
       /\ \A i \in 1..Len(Batch) :
            (\E n \in 1..Len(last.ret.subjects) : last.ret.subjects[n].description = Batch[i])
            <=> (KeywordsAt(i) # <<>> /\ ~ScoreLess(CandidateConfidence(i), Threshold))
       /\ \A n \in 1..Len(last.ret.subjects) :
            ~ScoreLess(last.ret.subjects[n].confidence, Threshold)
       /\ \A n \in 1..Len(last.ret.created) :
            ~ScoreLess(last.ret.created[n].confidence, Threshold)

\* a candidate whose confidence is the threshold is returned and persisted,
\* and one below the threshold is dropped
C28_Witness ==
  /\ Returned
  /\ \E n \in 1..Len(last.ret.created) :
       SameFraction(last.ret.created[n].confidence, Threshold)
  /\ \E n \in 1..Len(last.ret.subjects) :
       SameFraction(last.ret.subjects[n].confidence, Threshold)
  /\ \E i \in 1..Len(Batch) :
       /\ KeywordsAt(i) # <<>>
       /\ ScoreLess(CandidateConfidence(i), Threshold)

\* C29: of the returned subjects, exactly one per label compared without
\* case is persisted, and no returned subject of that label has a higher
\* confidence; nothing else is persisted.
C29_OnePerLabel ==
  Returned =>
    LET returned == last.ret.subjects
        created == last.ret.created
    IN /\ \A n \in 1..Len(returned) :
            \E c \in 1..Len(created) :
              /\ toLowerCase(created[c].name) = toLowerCase(returned[n].name)
              /\ ~ScoreLess(created[c].confidence, returned[n].confidence)
       /\ \A c \in 1..Len(created) :
            /\ \E n \in 1..Len(returned) :
                 /\ returned[n].name = created[c].name
                 /\ returned[n].description = created[c].description
                 /\ returned[n].confidence = created[c].confidence
            /\ \A d \in 1..Len(created) :
                 toLowerCase(created[d].name) = toLowerCase(created[c].name) => d = c
       /\ last.arg.request.topicId \in DOMAIN associations =>
            Len(associations[last.arg.request.topicId]) >= Len(created)

\* three returned subjects of one label, in two spellings and of rising
\* confidence, of which the last is persisted
C29_Witness ==
  /\ Returned
  /\ Len(last.ret.subjects) = 3
  /\ Len(last.ret.created) = 1
  /\ last.ret.subjects[1].name # last.ret.subjects[2].name
  /\ ScoreLess(last.ret.subjects[1].confidence, last.ret.subjects[3].confidence)
  /\ last.ret.created[1].description = last.ret.subjects[3].description

\* how often a keyword of normalized form k was extracted from the messages
\* 1..i of the batch
RECURSIVE NormalizedCount(_, _)
NormalizedCount(k, i) ==
  IF i = 0 THEN 0
  ELSE Cardinality({ j \in 1..Len(KeywordsAt(i)) : normalizeKeyword(KeywordsAt(i)[j]) = k })
       + NormalizedCount(k, i - 1)

\* the sum of the counts, by normalized form, of the keywords of a subject
\* made from the i-th message
RECURSIVE SumNormalizedCounts(_, _)
SumNormalizedCounts(keywords, i) ==
  IF keywords = <<>> THEN 0
  ELSE NormalizedCount(normalizeKeyword(Head(keywords)), i)
       + SumNormalizedCounts(Tail(keywords), i)

\* C30: every keyword of a returned subject is in normalized form, and the
\* subject's confidence counts raw keywords of one normalized form (differing
\* in case, punctuation or surrounding white space) as one keyword.
C30_NormalizedKeywords ==
  Returned =>
    \A n \in 1..Len(last.ret.subjects) :
      LET subject == last.ret.subjects[n]
          expected == [ num |-> SumNormalizedCounts(subject.keywords, PlaceOf(subject)),
                        den |-> Len(subject.keywords) * Len(Batch) ]
      IN /\ \A j \in 1..Len(subject.keywords) :
              subject.keywords[j] = normalizeKeyword(subject.keywords[j])
         /\ SameFraction(subject.confidence,
                         IF ScoreLess(One, expected) THEN One ELSE expected)

(***************************************************************************)
(* updateSubject against removeSubject followed by addSubject              *)
(***************************************************************************)
\* two indexes with the same stored entries and, keyword by keyword, the
\* same members of the posting list (a posting list is a Set of ids)
SameIndexState(a, b) ==
  /\ a.subjects = b.subjects
  /\ DOMAIN a.keywordToSubjects = DOMAIN b.keywordToSubjects
  /\ \A k \in DOMAIN a.keywordToSubjects :
       Range(a.keywordToSubjects[k]) = Range(b.keywordToSubjects[k])

MaxCreates == 2

Callers == {"c1", "c2"}

\* what the two callers pass: one id, two descriptions, no or one keyword
CallerParams ==
  { p \in CreateSubjectParams :
      p.sources = <<>> /\ p.description # "" /\ Len(p.keywords) <= 1 }

IdleCreate == [pc |-> "idle", ids |-> <<>>, params |-> <<>>, found |-> <<>>]

Creates(id) == IF id \in DOMAIN storeCreates THEN storeCreates[id] ELSE 0

SetPlanFields(P) ==
  /\ store' = P.store
  /\ subjectCache' = P.subjectCache
  /\ indexInitialized' = P.indexInitialized
  /\ SetIndex(P.index)

InitCreate ==
  /\ subjects = EmptyMap
  /\ keywordToSubjects = EmptyMap
  /\ last = Call("new", <<>>, <<>>, <<>>)
  /\ store = EmptyMap
  /\ subjectCache = EmptyMap
  /\ indexInitialized = FALSE
  /\ pending = [c \in Callers |-> IdleCreate]
  /\ configs = EmptyMap
  /\ associations = EmptyMap
  /\ storeCreates = EmptyMap
  /\ imports = NoImports
  /\ events = EmptyMap
  /\ deps = Collaborators

\* createSubject(params) is called and suspends at listSubjects
BeginCreateSubject(c) ==
  \E params \in CallerParams :
    /\ pending[c].pc = "idle"
    /\ Creates(params.id) < MaxCreates
    /\ pending' = [pending EXCEPT ![c] =
                     [ pc |-> "scan", ids |-> subjectPlan_listSubjects(store),
                       params |-> <<params>>, found |-> <<>> ]]
    /\ UNCHANGED <<subjects, keywordToSubjects, last, store, subjectCache,
                   indexInitialized, serviceVars, storeCreates, importVars>>

\* one pass of the loop over the listed ids: getSubject and the comparison
\* with the global id
ScanSubject(c) ==
  /\ pending[c].pc = "scan"
  /\ pending[c].ids # <<>>
  /\ LET existingId == Head(pending[c].ids)
         got == getSubject(Plan, existingId)
     IN /\ subjectCache' = got.plan.subjectCache
        /\ pending' = [pending EXCEPT ![c] =
                         IF got.ret # <<>> /\ got.ret[1].id = pending[c].params[1].id
                         THEN [@ EXCEPT !.pc = "merge", !.found = <<existingId>>]
                         ELSE [@ EXCEPT !.ids = Tail(@)]]
  /\ UNCHANGED <<subjects, keywordToSubjects, last, store, indexInitialized,
                 serviceVars, storeCreates, importVars>>

\* the merge path runs to its return
MergeExisting(c) ==
  /\ pending[c].pc = "merge"
  /\ LET done == mergeIntoExisting(Plan, pending[c].found[1], pending[c].params[1])
     IN /\ SetPlanFields(done.plan)
        /\ last' = Call("createSubject", pending[c].params[1], done.idHash, <<>>)
  /\ pending' = [pending EXCEPT ![c] = IdleCreate]
  /\ UNCHANGED <<serviceVars, storeCreates, importVars>>

\* subjectPlan.updateSubject throws in the merge path: the catch logs it and
\* the call goes on to the creation path
MergeFails(c) ==
  /\ pending[c].pc = "merge"
  /\ pending' = [pending EXCEPT ![c] = [@ EXCEPT !.pc = "create"]]
  /\ UNCHANGED <<subjects, keywordToSubjects, last, store, subjectCache,
                 indexInitialized, serviceVars, storeCreates, importVars>>

\* the creation path: subjectPlan.createSubject, the cache and the index
CreateNew(c) ==
  /\ \/ pending[c].pc = "create"
     \/ pending[c].pc = "scan" /\ pending[c].ids = <<>>
  /\ LET params == pending[c].params[1]
         done == createNewSubject(Plan, params)
     IN /\ SetPlanFields(done.plan)
        /\ storeCreates' = MapSet(storeCreates, params.id, Creates(params.id) + 1)
        /\ last' = Call("createSubject", params, done.idHash, <<>>)
  /\ pending' = [pending EXCEPT ![c] = IdleCreate]
  /\ UNCHANGED <<serviceVars, importVars>>

\* buildIndex() runs between the steps of the callers
BuildIndexBetween ==
  /\ ~indexInitialized
  /\ SetPlanFields(buildIndex(Plan))
  /\ last' = Call("buildIndex", <<>>, <<>>, <<>>)
  /\ UNCHANGED <<pending, serviceVars, storeCreates, importVars>>

NextCreate ==
  \/ \E c \in Callers : BeginCreateSubject(c)
  \/ \E c \in Callers : ScanSubject(c)
  \/ \E c \in Callers : MergeExisting(c)
  \/ \E c \in Callers : MergeFails(c)
  \/ \E c \in Callers : CreateNew(c)
  \/ BuildIndexBetween

SpecCreate == InitCreate /\ [][NextCreate]_vars

\* C32: the store's create operation is invoked at most once for a global
\* subject id, whatever the interleaving of the createSubject calls for it
\* and whatever step of the merge path fails.
C32_CreatedOnce == \A id \in DOMAIN storeCreates : storeCreates[id] <= 1

(***************************************************************************)
(* buildIndex followed step by step while createSubject, updateSubject and *)
(* deleteSubject of the same plan run at its suspension points             *)
(***************************************************************************)
\* the writes made during a build: creations without sources, updates of
\* the description
WriteParams == { p \in CreateSubjectParams : p.sources = <<>> /\ p.description = "d1" }

WriteUpdates == { u \in UpdateSubjectParams : u.keywords = <<>> /\ u.description # <<"">> }

NextBuildWrites ==
  \/ BeginBuildIndex
  \/ LoadSubject("buildIndex")
  \/ CompleteBuild("buildIndex")
  \/ CreateSubjectOf(WriteParams)
  \/ PlanUpdateSubjectOf(WriteUpdates)
  \/ DeleteSubject

SpecBuildWrites == InitPlan /\ [][NextBuildWrites]_vars

\* C33: once a build has completed and no call is running, the index holds
\* an entry for exactly the subjects the store holds: a subject created
\* while the build was suspended is indexed, one deleted meanwhile is not.
C33_WritesDuringBuild ==
  (indexInitialized /\ pending["buildIndex"].pc = "idle")
    => DOMAIN subjects = { store[h].id : h \in DOMAIN store }

\* C34: right after deleteSubject(idHash) has returned true, getSubject(idHash)
\* returns null, and right after updateSubject(idHash, updates) has returned,
\* getSubject(idHash) returns the subject as the store holds it now.
C34_CacheFollowsStore ==
  /\ (last.op = "deleteSubject" /\ last.ret = TRUE)
       => getSubject(Plan, last.arg).ret = <<>>
  /\ last.op = "updateSubject"
       => getSubject(Plan, last.arg.idHash).ret = <<store[last.arg.idHash]>>

\* C35: every match of findByKeywords has a relevanceScore above 0, and the
\* matched subject has a normalized keyword that is one of the normalized
\* keywords of the query.
C35_PositiveScore ==
  \A Q \in Queries :
    LET matches == findByKeywords(Index, Q)
    IN \A i \in DOMAIN matches :
         /\ matches[i].relevanceScore.num > 0
         /\ subjects[matches[i].idHash].normalizedKeywords
              \cap Range(normalizeKeywords(Q)) # {}

\* C36: the subjects extractAndStoreSubjects returns are the persisted ones:
\* no two returned subjects have the same label compared without case, and
\* one createSubject call was made for each returned subject.
C36_ReturnedArePersisted ==
  Returned =>
    LET returned == last.ret.subjects
        created == last.ret.created
    IN /\ \A m, n \in 1..Len(returned) :
            toLowerCase(returned[m].name) = toLowerCase(returned[n].name) => m = n
       /\ Len(created) = Len(returned)
       /\ \A n \in 1..Len(returned) :
            \E c \in 1..Len(created) :
              /\ created[c].name = returned[n].name
              /\ created[c].description = returned[n].description

(***************************************************************************)
(* Enabling, disabling and toggling the memories of two topics             *)
(***************************************************************************)
TwoTopics == { <<"t", "1">>, <<"t", "2">> }

\* a mutant of toggleMemories: it enables whatever the state is
toggleMemoriesEnabling(S, topicId) ==
  [service |-> enableMemories(S, topicId, <<>>).service, ret |-> TRUE]

\* ChatMemoryHandler.toggleMemories(topicId): the handler's disableMemories
\* or its enableMemories(topicId), which passes no minConfidence
toggleMemories(S, topicId) ==
  IF isEnabled(S, topicId)
  THEN [service |-> disableMemories(S, topicId), ret |-> FALSE]
  ELSE [service |-> enableMemories(S, topicId, <<>>).service, ret |-> TRUE]

ToggleMemories ==
  \E topicId \in TwoTopics :
    LET done == toggleMemories(Service, topicId)
    IN /\ SetService(done.service)
       /\ last' = Call("toggleMemories", topicId, done.ret, <<>>)
       /\ UNCHANGED indexVars

NextEnable ==
  \/ EnableMemoriesOn(TwoTopics)
  \/ DisableMemoriesOn(TwoTopics)
  \/ ToggleMemories

SpecEnable == InitService /\ [][NextEnable]_vars

\* the service after the step
ServiceNext == [configs |-> configs', associations |-> associations', deps |-> deps']

\* the topic of the call that last' records
CalledTopic ==
  IF last'.op = "enableMemories" THEN last'.arg[1] ELSE last'.arg

\* C37: a topic without a config is not enabled; enableMemories(t) makes
\* isEnabled(t) true and disableMemories(t) makes it false, creating no
\* config where there was none; toggleMemories(t) flips isEnabled(t) and
\* returns the new value; and a call on one topic leaves the config and the
\* state of every other topic as they were.
C37_PerTopicEnablement ==
  [][ /\ \A t \in TwoTopics : t \notin DOMAIN configs => ~isEnabled(Service, t)
      /\ last'.op \in {"enableMemories", "disableMemories", "toggleMemories"} =>
           /\ last'.op = "enableMemories" => isEnabled(ServiceNext, CalledTopic)
           /\ last'.op = "disableMemories" =>
                /\ ~isEnabled(ServiceNext, CalledTopic)
                /\ CalledTopic \notin DOMAIN configs => CalledTopic \notin DOMAIN configs'
           /\ last'.op = "toggleMemories" =>
                /\ isEnabled(ServiceNext, CalledTopic) = ~isEnabled(Service, CalledTopic)
                /\ last'.ret = isEnabled(ServiceNext, CalledTopic)
           /\ \A t \in TwoTopics \ {CalledTopic} :
                /\ isEnabled(ServiceNext, t) = isEnabled(Service, t)
                /\ getConfig(ServiceNext, t) = getConfig(Service, t) ]_vars

\* a toggle has disabled one topic while the other topic is enabled
C37_Witness ==
  /\ last.op = "toggleMemories"
  /\ last.ret = FALSE
  /\ ~isEnabled(Service, last.arg)
  /\ \E t \in TwoTopics \ {last.arg} : isEnabled(Service, t)

(***************************************************************************)
(* ChatMemoryService.findRelatedMemories over the subjects the memory plan *)
(* lists.  A stored subject is its name and the 'keywords' string of its   *)
(* metadata (<<>> when it has none).                                       *)
(***************************************************************************)
MaxStored == 3

\* request.minRelevance ?? 0.3
DefaultMinRelevance == [num |-> 3, den |-> 10]

\* String.prototype.split(','): the pieces between the commas
RECURSIVE SplitAtCommas(_, _)
SplitAtCommas(str, piece) ==
  IF str = <<>> THEN <<piece>>
  ELSE IF Head(str) = ","
       THEN <<piece>> \o SplitAtCommas(Tail(str), <<>>)
       ELSE SplitAtCommas(Tail(str), Append(piece, Head(str)))

\* extractKeywordsFromSubject(subject)
extractKeywordsFromSubject(subject) ==
  IF subject.keywords # <<>> /\ subject.keywords[1] # <<>>
  THEN LET pieces == SplitAtCommas(subject.keywords[1], <<>>)
       IN [i \in 1..Len(pieces) |-> Trim(pieces[i])]
  ELSE <<>>

\* calculateRelevance(keywords1, keywords2): overlap / union as a fraction
calculateRelevance(keywords1, keywords2) ==
  IF Len(keywords1) = 0 \/ Len(keywords2) = 0 THEN [num |-> 0, den |-> 1]
  ELSE LET set1 == { toLowerCase(keywords1[i]) : i \in 1..Len(keywords1) }
           set2 == { toLowerCase(keywords2[i]) : i \in 1..Len(keywords2) }
       IN [num |-> Cardinality(set1 \cap set2), den |-> Cardinality(set1 \cup set2)]

\* the loop over the listed subjects: the memories pushed, in listing order
RECURSIVE RelatedAmong(_, _, _)
RelatedAmong(stored, request, at) ==
  IF at > Len(stored) THEN <<>>
  ELSE LET subject == stored[at]
           subjectKeywords == extractKeywordsFromSubject(subject)
           relevanceScore == calculateRelevance(request.keywords, subjectKeywords)
           rest == RelatedAmong(stored, request, at + 1)
       IN IF ~ScoreLess(relevanceScore, LimitOr(request.minRelevance, DefaultMinRelevance))
          THEN << [ subjectIdHash |-> at,
                    name |-> subject.name,
                    keywords |-> subjectKeywords,
                    relevanceScore |-> relevanceScore ] >> \o rest
          ELSE rest

\* findRelatedMemories(request) when the memory plan lists the subjects
\* stored; the idHash of a subject is its place in the listing
findRelatedMemories(S, request, stored) ==
  IF "memoryPlan" \notin S.deps
  THEN [ok |-> FALSE, memories |-> <<>>, totalFound |-> 0]
  ELSE LET relatedMemories == SortByRelevance(RelatedAmong(stored, request, 1))
           limited == IF request.limit # <<>> /\ request.limit[1] # 0
                      THEN Slice(relatedMemories, request.limit[1])
                      ELSE relatedMemories
       IN [ok |-> TRUE, memories |-> limited, totalFound |-> Len(relatedMemories)]

\* the 'keywords' strings of stored subjects: none, "a", "A, b"
StoredKeywordStrings ==
  { <<>>, << <<"a">> >>, << <<"A", ",", " ", "b">> >> }

StoredLists ==
  { [i \in 1..Len(ks) |-> [name |-> i, keywords |-> ks[i]]] :
      ks \in SeqsUpTo(StoredKeywordStrings, MaxStored) }

RelatedRequests ==
  [ keywords : { <<>>, << <<"a">> >>, << <<"a">>, <<"B">>, <<"c">> >> },
    minRelevance : Optional({ [num |-> 1, den |-> 2] }),
    limit : Optional(0..2) ]

FindRelatedMemories ==
  \E request \in RelatedRequests, stored \in StoredLists :
    /\ last' = Call("findRelatedMemories", [request |-> request, stored |-> stored],
                    findRelatedMemories(Service, request, stored), <<>>)
    /\ UNCHANGED <<serviceVars, indexVars>>

NextRelated == FindRelatedMemories

SpecRelated == InitService /\ [][NextRelated]_vars

\* the call findRelatedMemories made in this state returned a response
RelatedReturned ==
  /\ last.op = "findRelatedMemories"
  /\ last.ret.ok

\* the lower-cased keyword set of a list of keywords
LowerSet(keywords) == { toLowerCase(keywords[i]) : i \in 1..Len(keywords) }

\* Jaccard similarity of the request keywords and the keywords of the stored
\* subject at place at, 0 when either list is empty
Jaccard(request, stored, at) ==
  LET k1 == request.keywords
      k2 == extractKeywordsFromSubject(stored[at])
  IN IF k1 = <<>> \/ k2 = <<>> THEN [num |-> 0, den |-> 1]
     ELSE [ num |-> Cardinality(LowerSet(k1) \cap LowerSet(k2)),
            den |-> Cardinality(LowerSet(k1) \cup LowerSet(k2)) ]

\* the stored subjects that qualify for the request
Qualifying(request, stored) ==
  { at \in 1..Len(stored) :
      ~ScoreLess(Jaccard(request, stored, at),
                 IF request.minRelevance = <<>> THEN DefaultMinRelevance
                 ELSE request.minRelevance[1]) }

\* the response holds the expected number of the qualifying subjects, once
\* each, with their Jaccard similarity, in non-increasing order of it, none
\* left out scoring higher than one returned; totalFound counts them all
RelatedResponse(request, stored, ret, expected) ==
  LET Q == Qualifying(request, stored)
      m == ret.memories
  IN /\ ret.totalFound = Cardinality(Q)
     /\ Len(m) = expected
     /\ \A i \in 1..Len(m) :
          /\ m[i].subjectIdHash \in Q
          /\ SameFraction(m[i].relevanceScore, Jaccard(request, stored, m[i].subjectIdHash))
     /\ \A i, j \in 1..Len(m) :
          /\ i # j => m[i].subjectIdHash # m[j].subjectIdHash
          /\ i < j => ~ScoreLess(m[i].relevanceScore, m[j].relevanceScore)
     /\ \A at \in Q :
          (\A i \in 1..Len(m) : m[i].subjectIdHash # at)
            => \A i \in 1..Len(m) :
                 ~ScoreLess(m[i].relevanceScore, Jaccard(request, stored, at))

\* C38: findRelatedMemories returns exactly the stored subjects whose Jaccard
\* similarity (on lower-cased keyword sets) with the request keywords is at
\* least minRelevance (0.3 when not given), sorted by non-increasing
\* relevance and cut to the first limit entries when a limit is given;
\* totalFound is the number of qualifying subjects before the cut, and an
\* empty keyword list on either side scores 0.
C38_RelatedMemories ==
  RelatedReturned =>
    LET request == last.arg.request
        stored == last.arg.stored
        found == Cardinality(Qualifying(request, stored))
    IN RelatedResponse(request, stored, last.ret,
                       IF request.limit = <<>> THEN found
                       ELSE Min(request.limit[1], found))

(***************************************************************************)
(* MemoryImportPlan.importMemory, followed from await to await.  A         *)
(* document is what the extraction finds in the HTML: the state of the     *)
(* embedded signature, whether a signer profile is embedded, and whether   *)
(* the signature data names a person.  events[call] is the order of the    *)
(* calls one import makes on its dependencies and of their outcomes.       *)
(***************************************************************************)
MaxImports == 3

\* signature: "none" (no signatureData meta tag), "unparsable" (the tag's
\* content is not JSON: extractSignatureData answers undefined), "invalid"
\* (verifySignature answers false) and "valid" (it answers true)
Documents ==
  { [signature |-> "none",       profile |-> FALSE, personId |-> FALSE],
    [signature |-> "unparsable", profile |-> TRUE,  personId |-> FALSE],
    [signature |-> "invalid",    profile |-> TRUE,  personId |-> TRUE],
    [signature |-> "valid",      profile |-> TRUE,  personId |-> TRUE],
    [signature |-> "valid",      profile |-> FALSE, personId |-> TRUE],
    [signature |-> "valid",      profile |-> TRUE,  personId |-> FALSE] }

\* extractSignatureData(html) is defined
signatureData(doc) == doc.signature \in {"invalid", "valid"}

\* verifySignature(contentHtml, signature, signingKey); every error inside
\* is caught and answered with false
verifySignature(doc) == doc.signature = "valid"

ImportEvent(call, op, eventType, success, error) ==
  [call |-> call, op |-> op, eventType |-> eventType, success |-> success, error |-> error]

\* importMemory(html) is called with the document doc
ImportCall(call, doc) ==
  [call |-> call, op |-> "importMemory", eventType |-> "", success |-> FALSE, error |-> "",
   doc |-> doc]

\* the number of importMemory calls made so far
ImportsBegun == Cardinality(DOMAIN events)

\* auditService.recordEvent({eventType: 'memory_imported', success, error})
recordImported(call, success, error) ==
  ImportEvent(call, "recordEvent", "memory_imported", success, error)

\* the import of importer i makes the calls logged and waits at pc
ImportContinues(i, pc, logged, error) ==
  /\ imports' = [imports EXCEPT ![i].pc = pc, ![i].error = error]
  /\ events' = MapSet(events, imports[i].call, events[imports[i].call] \o logged)

\* a mutant of afterVerification: an invalid signature does not stop the import
afterVerificationProceeding(signatureValid) == "proceed"

\* if (!signatureValid) { recordEvent(...); throw } else go on to the trust evaluation
afterVerification(signatureValid) ==
  IF ~signatureValid THEN "reject" ELSE "proceed"

\* importMemory(html) is called and waits for leuteModel.myMainIdentity()
BeginImport(i) ==
  /\ imports[i].pc = "idle"
  /\ ImportsBegun < MaxImports
  /\ \E doc \in Documents :
       /\ imports' = [imports EXCEPT ![i] =
            [pc |-> "identity", call |-> ImportsBegun + 1, doc |-> doc, error |-> ""]]
       /\ events' = MapSet(events, ImportsBegun + 1, << ImportCall(ImportsBegun + 1, doc) >>)

\* 1. the extraction from the HTML; a signed document goes to verifySignature,
\* an unsigned one straight to explode
ExtractFromDocument(i) ==
  /\ imports[i].pc = "identity"
  /\ IF signatureData(imports[i].doc)
     THEN ImportContinues(i, "verify", <<>>, "")
     ELSE ImportContinues(i, "explode",
            << ImportEvent(imports[i].call, "explode", "", FALSE, "") >>, "")

\* 2. verifySignature has answered
SignatureVerified(i) ==
  /\ imports[i].pc = "verify"
  /\ IF afterVerification(verifySignature(imports[i].doc)) = "reject"
     THEN ImportContinues(i, "recordFailure",
            << ImportEvent(imports[i].call, "verified", "", verifySignature(imports[i].doc), ""),
               recordImported(imports[i].call, FALSE, "Invalid signature") >>,
            "Signature verification failed")
     ELSE ImportContinues(i, "trust",
            << ImportEvent(imports[i].call, "verified", "", verifySignature(imports[i].doc), "") >>,
            "")

\* 3. trustedKeysManager.getKeyTrustInfo has answered: a trusted key goes to
\* explode, an unknown signer with an embedded profile to the user, every
\* other document to explode
TrustEvaluated(i) ==
  /\ imports[i].pc = "trust"
  /\ \E trusted \in BOOLEAN :
       IF trusted \/ ~(imports[i].doc.profile /\ imports[i].doc.personId)
       THEN ImportContinues(i, "explode",
              << ImportEvent(imports[i].call, "explode", "", FALSE, "") >>, "")
       ELSE ImportContinues(i, "prompt",
              << ImportEvent(imports[i].call, "onUnknownSigner", "", FALSE, "") >>, "")

\* onUnknownSigner has answered
UserDecided(i) ==
  /\ imports[i].pc = "prompt"
  /\ \E userApproved \in BOOLEAN :
       IF ~userApproved
       THEN ImportContinues(i, "recordFailure",
              << ImportEvent(imports[i].call, "userAnswer", "", FALSE, ""),
                 recordImported(imports[i].call, FALSE, "User rejected unknown signer") >>,
              "Import rejected by user")
       ELSE ImportContinues(i, "profile",
              << ImportEvent(imports[i].call, "userAnswer", "", TRUE, "") >>, "")

\* createProfileForSigner has returned: for a signer not yet known it has
\* recorded a 'trust_established' event; 4. explode is called
ProfileCreated(i) ==
  /\ imports[i].pc = "profile"
  /\ \E alreadyKnown \in BOOLEAN :
       ImportContinues(i, "explode",
         (IF alreadyKnown THEN <<>>
          ELSE << ImportEvent(imports[i].call, "recordEvent", "trust_established", TRUE, "") >>)
         \o << ImportEvent(imports[i].call, "explode", "", FALSE, "") >>, "")

\* explode has returned; 5. the success event is handed to the audit service
ExplodeReturned(i) ==
  /\ imports[i].pc = "explode"
  /\ ImportContinues(i, "recordSuccess",
       << ImportEvent(imports[i].call, "explodeReturned", "", TRUE, ""),
          recordImported(imports[i].call, TRUE, "") >>, "")

\* recordEvent has returned after a failure: the error is thrown
FailureRecorded(i) ==
  /\ imports[i].pc = "recordFailure"
  /\ imports' = [imports EXCEPT ![i] = IdleImport]
  /\ events' = MapSet(events, imports[i].call,
                       Append(events[imports[i].call],
                              ImportEvent(imports[i].call, "throw", "", FALSE, imports[i].error)))

\* recordEvent has returned after explode: importMemory returns the result
SuccessRecorded(i) ==
  /\ imports[i].pc = "recordSuccess"
  /\ imports' = [imports EXCEPT ![i] = IdleImport]
  /\ events' = MapSet(events, imports[i].call,
                       Append(events[imports[i].call],
                              ImportEvent(imports[i].call, "return", "", TRUE, "")))

\* the dependency the import waits for rejects: importMemory has no catch,
\* the rejection leaves it (verifySignature catches its own errors)
DependencyRejects(i) ==
  /\ imports[i].pc \in {"identity", "trust", "prompt", "profile", "explode",
                        "recordFailure", "recordSuccess"}
  /\ imports' = [imports EXCEPT ![i] = IdleImport]
  /\ events' = MapSet(events, imports[i].call,
                       Append(events[imports[i].call],
                              ImportEvent(imports[i].call, "throw", "", FALSE, "rejected")))

\* what a step of an import leaves alone
ImportFrame(i) ==
  /\ last' = Call("importMemory", i, <<>>, <<>>)
  /\ UNCHANGED <<subjects, keywordToSubjects, store, subjectCache, indexInitialized,
                 pending, storeCreates, serviceVars>>

NextImport ==
  \/ \E i \in Importers : BeginImport(i) /\ ImportFrame(i)
  \/ \E i \in Importers : ExtractFromDocument(i) /\ ImportFrame(i)
  \/ \E i \in Importers : SignatureVerified(i) /\ ImportFrame(i)
  \/ \E i \in Importers : TrustEvaluated(i) /\ ImportFrame(i)
  \/ \E i \in Importers : UserDecided(i) /\ ImportFrame(i)
  \/ \E i \in Importers : ProfileCreated(i) /\ ImportFrame(i)
  \/ \E i \in Importers : ExplodeReturned(i) /\ ImportFrame(i)
  \/ \E i \in Importers : FailureRecorded(i) /\ ImportFrame(i)
  \/ \E i \in Importers : SuccessRecorded(i) /\ ImportFrame(i)
  \/ \E i \in Importers : DependencyRejects(i) /\ ImportFrame(i)

SpecImport == Init /\ [][NextImport]_vars

\* the places of the events of import call c that are of kind op
Places(c, op) == { k \in 1..Len(events[c]) : events[c][k].op = op }

\* the document import call c was given
DocumentOf(c) == events[c][1].doc

\* verifySignature answered false in import call c
VerificationFailed(c) == \E k \in Places(c, "verified") : ~events[c][k].success

\* the user rejected the unknown signer in import call c
SignerRejected(c) == \E k \in Places(c, "userAnswer") : ~events[c][k].success

\* the places where import call c handed a 'memory_imported' event with the
\* given success to the audit service
Recorded(c, success) ==
  { k \in Places(c, "recordEvent") :
      /\ events[c][k].eventType = "memory_imported"
      /\ events[c][k].success = success }

\* C39: importMemory never calls explode for a document whose embedded
\* signature fails verification, nor for one whose unknown signer the user
\* rejected; in both cases a 'memory_imported' audit event with success=false
\* is recorded before the error is raised (and the call never returns a
\* result), and on a successful import the success audit event is recorded
\* only after explode has returned.
C39_ImportGating ==
  \A c \in DOMAIN events :
    /\ (DocumentOf(c).signature = "invalid" \/ VerificationFailed(c) \/ SignerRejected(c))
         => /\ Places(c, "explode") = {}
            /\ Places(c, "return") = {}
            /\ Recorded(c, TRUE) = {}
    /\ (VerificationFailed(c) \/ SignerRejected(c))
         => /\ Recorded(c, FALSE) # {}
            /\ \A t \in Places(c, "throw") : \E k \in Recorded(c, FALSE) : k < t
    /\ \A k \in Recorded(c, TRUE) : \E x \in Places(c, "explodeReturned") : x < k
    /\ \A r \in Places(c, "return") : Recorded(c, TRUE) # {}

\* the import call c has raised the error after recording a failure
RaisedAfterFailure(c, error) ==
  \E t \in Places(c, "throw") :
    /\ events[c][t].error = error
    /\ \E k \in Recorded(c, FALSE) : k < t

\* one import was stopped by its invalid signature, one by the user, and one
\* that created the profile of its unknown signer has returned its result
C39_Witness ==
  \E c1, c2, c3 \in DOMAIN events :
    /\ VerificationFailed(c1) /\ RaisedAfterFailure(c1, "Signature verification failed")
    /\ SignerRejected(c2) /\ RaisedAfterFailure(c2, "Import rejected by user")
    /\ Places(c3, "return") # {}
    /\ \E k \in Places(c3, "recordEvent") : events[c3][k].eventType = "trust_established"

====
